---- MODULE Spec2Model ----
(***************************************************************************)
(* State-machine model of the amika sandbox / mount lifecycle manager:     *)
(* `sandbox create`, `sandbox delete` and `volume delete`, the three JSONL  *)
(* record stores they rewrite and the container runtime they drive.         *)
(*                                                                          *)
(* Fault model of specification Spec.  Every fallible call of a handler    *)
(* (runtime command, file-system call, store call) is a fault point.  A    *)
(* call that fails has no effect (the command or the rewrite did not       *)
(* happen).  `sandbox create` takes at most one fault: the first failure   *)
(* ends the main flow, and the compensating calls of rollbackAll, whose    *)
(* errors the code discards, are taken to succeed.  `sandbox delete`       *)
(* takes a set of faults, because cleanup continues after a per-store       *)
(* failure.  In Spec and SpecRequests every reading of the clock by the    *)
(* name minter is later than the one before; SpecMounts lets a reading     *)
(* equal the one before.  SpecPrompt adds the reading of the confirmation  *)
(* from standard input, SpecRemotes the copying of git remotes,            *)
(* SpecMaterialize the `materialize` command and its ephemeral stores, and *)
(* SpecConcurrent two invocations whose store calls interleave.            *)
(*                                                                          *)
(* The container runtime: a container name is unique (docker run --name    *)
(* fails on a name in use), docker run refuses two -v arguments with one   *)
(* container path, docker run brings a named volume of a -v argument into  *)
(* being when there is none, and docker rm -f of a name without container  *)
(* may or may not exit 0.  Containers and volumes are changed by these     *)
(* commands only.                                                          *)
(***************************************************************************)
EXTENDS Integers, Sequences, FiniteSets, TLC

VARIABLES
    sandboxStore,     \* sandboxes.jsonl: sequence of Info records
    volumeStore,      \* volumes.jsonl: sequence of VolumeInfo records
    fileMountStore,   \* rwcopy-mounts.jsonl: sequence of FileMountInfo records
    containers,       \* names of the containers the runtime holds
    dockerVolumes,    \* names of the volumes the runtime holds
    fileMountDirs,    \* copy directories that exist under the file-mounts base
    tempDirs,         \* directories of os.MkdirTemp that exist on the host
    clock,            \* last reading of time.Now().UnixNano()
    ops,              \* number of commands run so far
    last,             \* the last command: its arguments and what it reported
    request,          \* the command line of the last command, where recorded
    volumesFile       \* volumes.jsonl line by line (specification SpecStore)

vars == <<sandboxStore, volumeStore, fileMountStore, containers, dockerVolumes,
          fileMountDirs, tempDirs, clock, ops, last, request, volumesFile>>

(***************************************************************************)
(* Bounds of the model.                                                    *)
(***************************************************************************)
MaxOps == 3
MaxMounts == 2
MaxVolumes == 1
MaxDeleteFaults == 1
\* Bounds of specification SpecRequests.
MaxRequestOps == 2
MaxRequestMounts == 2
MaxRequestVolumes == 2
MaxRequestFaults == 2
\* Bounds of specification SpecMounts.
MaxMountOps == 2
MaxMountFlags == 2
\* Bounds of specification SpecGit.
MaxGitOps == 2
\* Bound of specification SpecPrompt, which has the commands of SpecRequests.
MaxPromptLines == 2
\* Bounds of specification SpecRemotes.
MaxSyncOps == 1
MaxRemotes == 2
\* Bound of specification SpecMaterialize, which has the commands of SpecGit.
MaxMaterializeMounts == 2
\* Bounds of specification SpecStore.
MaxStoreOps == 3
MaxStoreLines == 2

SandboxNames == {"s1", "s2"}

\* Names are sequences of string pieces (their concatenation is the name);
\* host paths are sequences of path components.
NoPath == <<>>
NoName == <<>>
UntrackedVolume == <<"user-volume">>
FileMountsBaseDir == <<"rwcopy-mounts.d">>

\* Host paths are sequences of path components; HostKind is what os.Stat sees.
\* The host has a source tree, a source file, a git repository (and its
\* prepared clone while a create with --git runs), ~/.claude.json and a
\* character device; SrcGone is a path at which there is nothing.
SrcTree == <<"src", "tree">>
SrcFile == <<"src", "cfg.json">>
SrcGone == <<"src", "gone">>
DevNull == <<"dev", "null">>
HomeDir == <<"home", "u">>
RepoRoot == <<"src", "repo">>
PreparedRepo == <<"tmp", "amika-git-mount", "repo">>
HostKind(p) ==
    IF p \in {SrcTree, RepoRoot, PreparedRepo} THEN "dir"
    ELSE IF p \in {SrcFile, HomeDir \o <<".claude.json">>} THEN "file"
    ELSE IF p = DevNull THEN "other"
    ELSE "missing"

\* Container targets are sequences of characters.
TargetA == <<"/", "a">>
TargetB == <<"/", "b">>
TargetV == <<"/", "v">>

\* The --mount values a create may be given (already split at ':').
MountCatalog ==
    { [Source |-> SrcTree, Target |-> TargetA, Mode |-> "rwcopy"],
      [Source |-> SrcFile, Target |-> TargetB, Mode |-> "rwcopy"] }

SeqsUpTo(S, n) == UNION { [1..k -> S] : k \in 0..n }

Range(s) == { s[i] : i \in DOMAIN s }

(***************************************************************************)
(* Record stores: read-all, upsert or filter, rewrite-all.                 *)
(***************************************************************************)
IndexOf(store, name) ==
    IF \E i \in DOMAIN store : store[i].Name = name
    THEN CHOOSE i \in DOMAIN store :
            /\ store[i].Name = name
            /\ \A j \in 1..(i - 1) : store[j].Name # name
    ELSE 0

Has(store, name) == IndexOf(store, name) # 0

\* Get is used where Has holds; its error return is the ~Has branch of the caller.
Get(store, name) == store[IndexOf(store, name)]

\* Variant of Save that appends the record without looking for its name.
SaveAppends(store, info) == Append(store, info)

Save(store, info) ==
    IF Has(store, info.Name)
    THEN [store EXCEPT ![IndexOf(store, info.Name)] = info]
    ELSE Append(store, info)

\* Variant of Remove that stops copying at the first record of the name.
RemoveDropsRest(store, name) ==
    IF Has(store, name) THEN SubSeq(store, 1, IndexOf(store, name) - 1) ELSE store

Remove(store, name) == SelectSeq(store, LAMBDA r : r.Name # name)

Contains(refs, sandbox) == \E i \in DOMAIN refs : refs[i] = sandbox

\* Variant of AddSandboxRef that appends the reference without looking for it.
AddSandboxRefAppends(store, name, sandbox) ==
    IF ~Has(store, name) THEN store
    ELSE Save(store, [Get(store, name) EXCEPT !.SandboxRefs = Append(@, sandbox)])

\* Both return the store unwritten when Get fails (the error return).
AddSandboxRef(store, name, sandbox) ==
    IF ~Has(store, name) THEN store
    ELSE LET info == Get(store, name)
         IN  Save(store, IF Contains(info.SandboxRefs, sandbox)
                         THEN info
                         ELSE [info EXCEPT !.SandboxRefs = Append(@, sandbox)])

RemoveSandboxRef(store, name, sandbox) ==
    IF ~Has(store, name) THEN store
    ELSE LET info == Get(store, name)
         IN  Save(store, [info EXCEPT !.SandboxRefs = SelectSeq(@, LAMBDA r : r # sandbox)])

\* Variant of VolumesForSandbox that lists every record.
VolumesForSandboxAll(store, sandbox) == store

VolumesForSandbox(store, sandbox) ==
    SelectSeq(store, LAMBDA v : Contains(v.SandboxRefs, sandbox))

IsInUse(store, name) == Len(Get(store, name).SandboxRefs) > 0

\* The file-mount store is the same code over FileMountInfo records.
FileMountsForSandbox(store, sandbox) ==
    SelectSeq(store, LAMBDA m : Contains(m.SandboxRefs, sandbox))

Names(store) == { store[i].Name : i \in DOMAIN store }

Refs(store, name) == Range(Get(store, name).SandboxRefs)

(***************************************************************************)
(* The record file.  The specifications of the commands keep of each       *)
(* store the record set that readAll returns; SpecStore keeps the file of  *)
(* the directory-volume store line by line (the other two stores are the   *)
(* same code over their record types).  A line is a JSON object, with the  *)
(* declared fields that are present and the fields the record type does    *)
(* not declare, or the beginning of one that a write did not finish.       *)
(***************************************************************************)
Fields == {"name", "createdBy", "sourcePath", "sandboxRefs"}

\* createdBy, sourcePath and sandboxRefs are tagged omitempty.
OmitEmpty(info) ==
    (IF info.CreatedBy = "" THEN {"createdBy"} ELSE {})
    \cup (IF info.SourcePath = <<>> THEN {"sourcePath"} ELSE {})
    \cup (IF info.SandboxRefs = <<>> THEN {"sandboxRefs"} ELSE {})

\* json.Marshal of a VolumeInfo: the fields of the struct and no others.
Marshal(info) ==
    [torn |-> FALSE, present |-> Fields \ OmitEmpty(info),
     Name |-> info.Name, CreatedBy |-> info.CreatedBy,
     SourcePath |-> info.SourcePath, SandboxRefs |-> info.SandboxRefs,
     unknown |-> {}]

\* json.Unmarshal into a VolumeInfo: a field the line lacks keeps its zero
\* value, a field the struct lacks is dropped.
Unmarshal(line) ==
    [Name |-> IF "name" \in line.present THEN line.Name ELSE <<>>,
     CreatedBy |-> IF "createdBy" \in line.present THEN line.CreatedBy ELSE "",
     SourcePath |-> IF "sourcePath" \in line.present THEN line.SourcePath ELSE <<>>,
     SandboxRefs |-> IF "sandboxRefs" \in line.present THEN line.SandboxRefs ELSE <<>>]

\* What is left of a line when the write of it stops part-way.
Torn(line) == [line EXCEPT !.torn = TRUE]

\* Lines that do not parse are skipped.
readAll(file) ==
    LET parsed == SelectSeq(file, LAMBDA line : ~line.torn)
    IN  [i \in DOMAIN parsed |-> Unmarshal(parsed[i])]

\* How a call of a store method goes: it runs to its end ("ok"), the file
\* cannot be read ("readAll"), the file cannot be opened for writing
\* ("os.Create"), or the rewrite stops (a failed write, or the end of the
\* process) after `at` whole lines and, with `torn`, part of the next.
Run(kind, at, torn) == [kind |-> kind, at |-> at, torn |-> torn]

\* os.Create truncates the file, then one Write per record and newline.
\* [file, err].
writeAll(file, volumes, run) ==
    IF run.kind = "os.Create" THEN [file |-> file, err |-> TRUE]
    ELSE IF run.kind = "write" /\ run.at < Len(volumes)
    THEN [file |-> [i \in 1..run.at |-> Marshal(volumes[i])]
                   \o (IF run.torn THEN <<Torn(Marshal(volumes[run.at + 1]))>> ELSE <<>>),
          err |-> TRUE]
    ELSE [file |-> [i \in DOMAIN volumes |-> Marshal(volumes[i])], err |-> FALSE]

\* The methods of fileVolumeStore over the file: [file, err].
fileSave(file, info, run) ==
    IF run.kind = "readAll" THEN [file |-> file, err |-> TRUE]
    ELSE writeAll(file, Save(readAll(file), info), run)

fileRemove(file, name, run) ==
    IF run.kind = "readAll" THEN [file |-> file, err |-> TRUE]
    ELSE IF Len(Remove(readAll(file), name)) = Len(readAll(file))
    THEN [file |-> file, err |-> FALSE]
    ELSE writeAll(file, Remove(readAll(file), name), run)

fileAddSandboxRef(file, name, sandbox, run) ==
    IF run.kind = "readAll" \/ ~Has(readAll(file), name)
    THEN [file |-> file, err |-> TRUE]
    ELSE writeAll(file, AddSandboxRef(readAll(file), name, sandbox), run)

fileRemoveSandboxRef(file, name, sandbox, run) ==
    IF run.kind = "readAll" \/ ~Has(readAll(file), name)
    THEN [file |-> file, err |-> TRUE]
    ELSE writeAll(file, RemoveSandboxRef(readAll(file), name, sandbox), run)

(***************************************************************************)
(* Name minter.                                                            *)
(***************************************************************************)
TrimPrefix(target) ==
    IF Len(target) > 0 /\ target[1] = "/" THEN Tail(target) ELSE target

Replace(chars) ==
    [i \in DOMAIN chars |-> IF chars[i] \in {"/", "_", "."} THEN "-" ELSE chars[i]]

sanitizedTarget(target) ==
    LET t == Replace(TrimPrefix(target))
    IN  IF t = <<>> THEN <<"root">> ELSE t

generateRWCopyVolumeName(sandboxName, target, nanos) ==
    <<"amika-rwcopy-", sandboxName, "-">> \o sanitizedTarget(target) \o <<"-", ToString(nanos)>>

generateRWCopyFileMountName(sandboxName, target, nanos) ==
    <<"amika-rwcopy-file-", sandboxName, "-">> \o sanitizedTarget(target) \o <<"-", ToString(nanos)>>

Base(path) == path[Len(path)]
Dir(path) == SubSeq(path, 1, Len(path) - 1)

(***************************************************************************)
(* Mounts injected after parsing: the agent configuration of a preset and  *)
(* the --git repository.  Container paths are sequences of characters,     *)
(* with the runs between separators kept as one piece.                     *)
(***************************************************************************)
containerHome == <<"/", "home", "/", "amika">>
SandboxWorkdir == <<"/", "home", "/", "amika", "/", "workspace">>

MountSpec(hostPath, containerPath, isDir) ==
    [HostPath |-> hostPath, ContainerPath |-> containerPath, IsDir |-> isDir]

IfDir(hostPath, containerPath) ==
    IF HostKind(hostPath) = "dir" THEN <<MountSpec(hostPath, containerPath, TRUE)>> ELSE <<>>

IfFile(hostPath, containerPath) ==
    IF HostKind(hostPath) = "file" THEN <<MountSpec(hostPath, containerPath, FALSE)>> ELSE <<>>

ClaudeMounts(homeDir) ==
    IfDir(homeDir \o <<".claude">>, containerHome \o <<"/", ".", "claude">>)
    \o IfFile(homeDir \o <<".claude.json">>, containerHome \o <<"/", ".", "claude", ".", "json">>)

OpenCodeMounts(homeDir) ==
    IfDir(homeDir \o <<".config", "opencode">>,
          containerHome \o <<"/", ".", "config", "/", "opencode">>)
    \o IfDir(homeDir \o <<".local", "share", "opencode">>,
             containerHome \o <<"/", ".", "local", "/", "share", "/", "opencode">>)
    \o IfDir(homeDir \o <<".local", "state", "opencode">>,
             containerHome \o <<"/", ".", "local", "/", "state", "/", "opencode">>)

CodexMounts(homeDir) ==
    IfDir(homeDir \o <<".codex">>, containerHome \o <<"/", ".", "codex">>)

AllMounts(homeDir) == ClaudeMounts(homeDir) \o OpenCodeMounts(homeDir) \o CodexMounts(homeDir)

RWCopyMounts(specs) ==
    [i \in DOMAIN specs |-> [Type |-> "bind", Source |-> specs[i].HostPath,
                             Volume |-> NoName, Target |-> specs[i].ContainerPath,
                             Mode |-> "rwcopy", SnapshotFrom |-> NoPath]]

IsAgentPreset(preset) == preset \in {"claude", "coder"}

\* The calls of prepareGitMount that can fail.
GitFaults ==
    { <<"resolveGitRoot", 0>>, <<"os.MkdirTemp", 0>>, <<"cloneFn", 0>>,
      <<"syncGitRemotes", 0>> }

\* Variant of prepareGitMount that returns its errors without removing the
\* temporary directory.
prepareGitMountLeavesClone(startPath, fault) ==
    [err |-> fault \in GitFaults,
     tmpDir |-> Dir(PreparedRepo),
     left |-> IF fault \in {<<"resolveGitRoot", 0>>, <<"os.MkdirTemp", 0>>}
              THEN {} ELSE {Dir(PreparedRepo)},
     Mount |-> [Type |-> "bind", Source |-> PreparedRepo, Volume |-> NoName,
                Target |-> SandboxWorkdir \o <<"/", Base(startPath)>>,
                Mode |-> "rwcopy", SnapshotFrom |-> startPath]]

\* [err, tmpDir, left, Mount]: the clone is made in a temporary directory;
\* left is what the call leaves of it (it removes the directory before it
\* returns an error), tmpDir what the cleanup it returns removes.
prepareGitMount(startPath, fault) ==
    [err |-> fault \in GitFaults,
     tmpDir |-> Dir(PreparedRepo),
     left |-> IF fault \in GitFaults THEN {} ELSE {Dir(PreparedRepo)},
     Mount |-> [Type |-> "bind", Source |-> PreparedRepo, Volume |-> NoName,
                Target |-> SandboxWorkdir \o <<"/", Base(startPath)>>,
                Mode |-> "rwcopy", SnapshotFrom |-> startPath]]

\* Variant of cleanupGitMount that removes nothing.
cleanupGitMountKeeps(dirs, gm) == dirs

\* The cleanup that prepareGitMount returns and the handler defers.
cleanupGitMount(dirs, gm) == dirs \ {gm.tmpDir}

(***************************************************************************)
(* Mount parsing and validation.  A parse result is [err, mounts].         *)
(***************************************************************************)
HasPrefixSlash(target) == Len(target) > 0 /\ target[1] = "/"

RECURSIVE parseMountFlagsFrom(_, _, _, _)
parseMountFlagsFrom(flags, i, seen, mounts) ==
    IF i > Len(flags) THEN [err |-> "", mounts |-> mounts]
    ELSE LET raw == flags[i]
         IN  IF ~HasPrefixSlash(raw.Target)
             THEN [err |-> "target must be an absolute path", mounts |-> <<>>]
             ELSE IF raw.Mode \notin {"ro", "rw", "rwcopy"}
             THEN [err |-> "invalid mount mode", mounts |-> <<>>]
             ELSE IF raw.Target \in seen
             THEN [err |-> "duplicate mount target", mounts |-> <<>>]
             ELSE parseMountFlagsFrom(flags, i + 1, seen \cup {raw.Target},
                      Append(mounts, [Type |-> "bind", Source |-> raw.Source,
                                      Volume |-> NoName, Target |-> raw.Target,
                                      Mode |-> raw.Mode, SnapshotFrom |-> NoPath]))

parseMountFlags(flags) == parseMountFlagsFrom(flags, 1, {}, <<>>)

RECURSIVE parseVolumeFlagsFrom(_, _, _, _)
parseVolumeFlagsFrom(flags, i, seen, mounts) ==
    IF i > Len(flags) THEN [err |-> "", mounts |-> mounts]
    ELSE LET raw == flags[i]
         IN  IF raw.Volume = NoName
             THEN [err |-> "volume name must not be empty", mounts |-> <<>>]
             ELSE IF ~HasPrefixSlash(raw.Target)
             THEN [err |-> "target must be an absolute path", mounts |-> <<>>]
             ELSE IF raw.Mode \notin {"ro", "rw"}
             THEN [err |-> "invalid volume mount mode", mounts |-> <<>>]
             ELSE IF raw.Target \in seen
             THEN [err |-> "duplicate mount target", mounts |-> <<>>]
             ELSE parseVolumeFlagsFrom(flags, i + 1, seen \cup {raw.Target},
                      Append(mounts, [Type |-> "volume", Source |-> NoPath,
                                      Volume |-> raw.Volume, Target |-> raw.Target,
                                      Mode |-> raw.Mode, SnapshotFrom |-> NoPath]))

parseVolumeFlags(flags) == parseVolumeFlagsFrom(flags, 1, {}, <<>>)

\* Variant of validateMountTargets that compares the volume targets with
\* each other only.
validateMountTargetsAmongVolumes(bindMounts, volumeMounts) ==
    \A j \in DOMAIN volumeMounts :
        \A k \in 1..(j - 1) : volumeMounts[k].Target # volumeMounts[j].Target

\* TRUE when the check passes.  Only a volume target can be reported: the
\* bind targets are entered into seen without being tested.
validateMountTargets(bindMounts, volumeMounts) ==
    \A j \in DOMAIN volumeMounts :
        /\ \A i \in DOMAIN bindMounts : bindMounts[i].Target # volumeMounts[j].Target
        /\ \A k \in 1..(j - 1) : volumeMounts[k].Target # volumeMounts[j].Target

(***************************************************************************)
(* sandbox create.  A transaction value t carries the stores and runtime   *)
(* sets as the call has changed them so far, the effective bindings        *)
(* (runtimeMounts), the rollback ledger and the first error.               *)
(***************************************************************************)
NoFault == <<"none", 0>>

\* An entry of the log of state-changing calls of one create: the call and
\* the position of the mount or volume it is made for (0 for the sandbox).
Call(call, index) == [call |-> call, index |-> index]

ResolveMount(t, name, m, i, fault) ==
    IF m.Mode # "rwcopy" THEN [t EXCEPT !.runtimeMounts = Append(@, m)]
    ELSE IF HostKind(m.Source) = "missing" \/ fault = <<"os.Stat", i>>
    THEN [t EXCEPT !.err = "os.Stat"]
    ELSE IF HostKind(m.Source) = "dir"
    THEN LET volumeName == generateRWCopyVolumeName(name, m.Target, t.clock + t.elapsed[i])
             t1 == [t EXCEPT !.clock = @ + t.elapsed[i]]
             t2 == [t1 EXCEPT !.dockerVolumes = @ \cup {volumeName},
                              !.createdVolumes = Append(@, volumeName)]
             volInfo == [Name |-> volumeName, CreatedBy |-> "rwcopy",
                         SourcePath |-> m.Source, SandboxRefs |-> <<name>>]
         IN  IF fault = <<"CreateDockerVolume", i>>
             THEN [t1 EXCEPT !.err = "CreateDockerVolume"]
             ELSE IF fault = <<"CopyHostDirToVolume", i>>
             THEN [t2 EXCEPT !.err = "CopyHostDirToVolume"]
             ELSE IF fault = <<"volumeStore.Save", i>>
             THEN [t2 EXCEPT !.err = "volumeStore.Save"]
             ELSE [t2 EXCEPT !.volumeStore = Save(@, volInfo),
                             !.log = Append(@, Call("volumeStore.Save", i)),
                             !.addedRefs = @ \cup {volumeName},
                             !.runtimeMounts = Append(@,
                                 [Type |-> "volume", Source |-> NoPath,
                                  Volume |-> volumeName, Target |-> m.Target,
                                  Mode |-> "rw", SnapshotFrom |-> m.Source])]
    ELSE LET mountName == generateRWCopyFileMountName(name, m.Target, t.clock + t.elapsed[i])
             copyDir == FileMountsBaseDir \o <<mountName>>
             copyPath == copyDir \o <<Base(m.Source)>>
             t1 == [t EXCEPT !.clock = @ + t.elapsed[i]]
             t2 == [t1 EXCEPT !.fileMountDirs = @ \cup {copyDir},
                              !.createdFileMountDirs = Append(@, copyDir)]
             fmInfo == [Name |-> mountName, Type |-> "file", CreatedBy |-> "rwcopy",
                        SourcePath |-> m.Source, CopyPath |-> copyPath,
                        SandboxRefs |-> <<name>>]
         IN  IF fault = <<"os.MkdirAll", i>>
             THEN [t1 EXCEPT !.err = "os.MkdirAll"]
             ELSE IF fault = <<"copyFile", i>>
             THEN [t2 EXCEPT !.err = "copyFile"]
             ELSE IF fault = <<"fileMountStore.Save", i>>
             THEN [t2 EXCEPT !.err = "fileMountStore.Save"]
             ELSE [t2 EXCEPT !.fileMountStore = Save(@, fmInfo),
                             !.log = Append(@, Call("fileMountStore.Save", i)),
                             !.addedFileRefs = @ \cup {mountName},
                             !.runtimeMounts = Append(@,
                                 [Type |-> "bind", Source |-> copyPath,
                                  Volume |-> NoName, Target |-> m.Target,
                                  Mode |-> "rw", SnapshotFrom |-> m.Source])]

RECURSIVE ResolveMounts(_, _, _, _, _)
ResolveMounts(t, name, mounts, i, fault) ==
    IF i > Len(mounts) \/ t.err # "" THEN t
    ELSE CHOOSE r \in { ResolveMounts(u, name, mounts, i + 1, fault) :
                            u \in {ResolveMount(t, name, mounts[i], i, fault)} } : TRUE

\* Variant of AttachVolume that binds the volume without adding the reference.
AttachVolumeNoRef(t, name, v, j, fault) ==
    IF ~Has(t.volumeStore, v.Volume) THEN [t EXCEPT !.err = "volumeStore.Get"]
    ELSE [t EXCEPT !.runtimeMounts = Append(@, v)]

AttachVolume(t, name, v, j, fault) ==
    IF ~Has(t.volumeStore, v.Volume) THEN [t EXCEPT !.err = "volumeStore.Get"]
    ELSE IF fault = <<"volumeStore.AddSandboxRef", j>>
    THEN [t EXCEPT !.err = "volumeStore.AddSandboxRef"]
    ELSE [t EXCEPT !.volumeStore = AddSandboxRef(@, v.Volume, name),
                   !.log = Append(@, Call("volumeStore.AddSandboxRef", j)),
                   !.addedRefs = @ \cup {v.Volume},
                   !.runtimeMounts = Append(@, v)]

RECURSIVE AttachVolumes(_, _, _, _, _)
AttachVolumes(t, name, volumeMounts, j, fault) ==
    IF j > Len(volumeMounts) \/ t.err # "" THEN t
    ELSE CHOOSE r \in { AttachVolumes(u, name, volumeMounts, j + 1, fault) :
                            u \in {AttachVolume(t, name, volumeMounts[j], j, fault)} } : TRUE

RECURSIVE RemoveSandboxRefs(_, _, _)
RemoveSandboxRefs(store, names, sandbox) ==
    IF names = {} THEN store
    ELSE LET n == CHOOSE x \in names : TRUE
         IN  RemoveSandboxRefs(RemoveSandboxRef(store, n, sandbox), names \ {n}, sandbox)

RECURSIVE RemoveRecords(_, _)
RemoveRecords(store, names) ==
    IF names = {} THEN store
    ELSE LET n == CHOOSE x \in names : TRUE
         IN  RemoveRecords(Remove(store, n), names \ {n})

\* Variant of rollbackAll that removes the physical volumes of the reference
\* ledger instead of those of the created-volumes ledger.
rollbackAllByRefs(t, name) ==
    [t EXCEPT !.volumeStore = RemoveRecords(RemoveSandboxRefs(@, t.addedRefs, name),
                                            Range(t.createdVolumes)),
              !.dockerVolumes = @ \ t.addedRefs,
              !.fileMountStore = RemoveRecords(@, t.addedFileRefs),
              !.fileMountDirs = @ \ Range(t.createdFileMountDirs)]

rollbackAll(t, name) ==
    [t EXCEPT !.volumeStore = RemoveRecords(RemoveSandboxRefs(@, t.addedRefs, name),
                                            Range(t.createdVolumes)),
              !.dockerVolumes = @ \ Range(t.createdVolumes),
              !.fileMountStore = RemoveRecords(@, t.addedFileRefs),
              !.fileMountDirs = @ \ Range(t.createdFileMountDirs)]

\* docker run refuses two -v arguments with one container path.
DuplicateMountPoint(runtimeMounts) ==
    \E i, j \in DOMAIN runtimeMounts :
        i < j /\ runtimeMounts[i].Target = runtimeMounts[j].Target

\* Variant of CreateDockerSandbox that drops the error of the docker command.
CreateDockerSandboxUnchecked(t, name, fault) ==
    IF \/ fault = <<"CreateDockerSandbox", 0>> \/ name \in t.containers
       \/ DuplicateMountPoint(t.runtimeMounts)
    THEN t
    ELSE [t EXCEPT !.containers = @ \cup {name},
                   !.dockerVolumes = @ \cup { t.runtimeMounts[i].Volume :
                        i \in { k \in DOMAIN t.runtimeMounts :
                                  t.runtimeMounts[k].Type = "volume" } }]

\* docker run -d --name <name> -v <src>:<target> ...: the runtime refuses a
\* name that a container already has, and brings a named volume of a -v
\* argument into being when it holds none of that name.
CreateDockerSandbox(t, name, fault) ==
    IF \/ fault = <<"CreateDockerSandbox", 0>> \/ name \in t.containers
       \/ DuplicateMountPoint(t.runtimeMounts)
    THEN [t EXCEPT !.err = "CreateDockerSandbox"]
    ELSE [t EXCEPT !.containers = @ \cup {name},
                   !.log = Append(@, Call("CreateDockerSandbox", 0)),
                   !.dockerVolumes = @ \cup { t.runtimeMounts[i].Volume :
                        i \in { k \in DOMAIN t.runtimeMounts :
                                  t.runtimeMounts[k].Type = "volume" } }]

\* Variant of CreateContainerAndSave that writes the sandbox record before
\* it creates the container.
CreateContainerAndSaveRecordFirst(t2, store, name, fault) ==
    LET t2s == [t2 EXCEPT !.log = Append(@, Call("store.Save", 0))]
        t3 == CreateDockerSandbox(t2s, name, fault)
    IN  IF t2.err # "" \/ fault = <<"store.Save", 0>>
        THEN [t |-> rollbackAll(t2, name), sandboxStore |-> store,
              outcome |-> "rolled-back"]
        ELSE IF t3.err # ""
        THEN [t |-> rollbackAll(t3, name), sandboxStore |-> store,
              outcome |-> "rolled-back"]
        ELSE [t |-> t3, outcome |-> "ok",
              sandboxStore |-> Save(store, [Name |-> name, Provider |-> "docker",
                                            Mounts |-> t3.runtimeMounts])]

\* Variant of CreateContainerAndSave that also rolls back when the save of
\* the sandbox record fails.
CreateContainerAndSaveRollsBack(t2, store, name, fault) ==
    LET t3 == IF t2.err = "" THEN CreateDockerSandbox(t2, name, fault) ELSE t2
    IN  IF t3.err # ""
        THEN [t |-> rollbackAll(t3, name), sandboxStore |-> store,
              outcome |-> "rolled-back"]
        ELSE IF fault = <<"store.Save", 0>>
        THEN [t |-> rollbackAll(t3, name), sandboxStore |-> store,
              outcome |-> "persist-failed"]
        ELSE [t |-> [t3 EXCEPT !.log = Append(@, Call("store.Save", 0))],
              outcome |-> "ok",
              sandboxStore |-> Save(store, [Name |-> name, Provider |-> "docker",
                                            Mounts |-> t3.runtimeMounts])]

\* Steps 5 and 6 of create, and the rollback of a failure up to step 5:
\* [t, sandboxStore, outcome].
CreateContainerAndSave(t2, store, name, fault) ==
    LET t3 == IF t2.err = "" THEN CreateDockerSandbox(t2, name, fault) ELSE t2
    IN  IF t3.err # ""
        THEN [t |-> rollbackAll(t3, name), sandboxStore |-> store,
              outcome |-> "rolled-back"]
        ELSE IF fault = <<"store.Save", 0>>
        THEN [t |-> t3, sandboxStore |-> store, outcome |-> "persist-failed"]
        ELSE [t |-> [t3 EXCEPT !.log = Append(@, Call("store.Save", 0))],
              outcome |-> "ok",
              sandboxStore |-> Save(store, [Name |-> name, Provider |-> "docker",
                                            Mounts |-> t3.runtimeMounts])]

IsRWCopy(raw) == raw.Mode = "rwcopy"

\* A clock of which every reading is later than the one before.
StrictClock(n) == [i \in 1..n |-> 1]

\* The most mounts a create appends to the --mount flags: the --git
\* repository and the agent configuration found under HomeDir.
MaxInjectedMounts == 1 + Len(AllMounts(HomeDir))

\* The fallible calls a create with these flags can reach.
CreateFaults(mountFlags, volumeFlags) ==
    {NoFault, <<"CreateDockerSandbox", 0>>, <<"store.Save", 0>>}
    \cup UNION { IF ~IsRWCopy(mountFlags[i]) THEN {}
                 ELSE IF HostKind(mountFlags[i].Source) = "dir"
                 THEN { <<"os.Stat", i>>, <<"CreateDockerVolume", i>>,
                        <<"CopyHostDirToVolume", i>>, <<"volumeStore.Save", i>> }
                 ELSE IF HostKind(mountFlags[i].Source) \in {"file", "other"}
                 THEN { <<"os.Stat", i>>, <<"os.MkdirAll", i>>,
                        <<"copyFile", i>>, <<"fileMountStore.Save", i>> }
                 ELSE {} : i \in DOMAIN mountFlags }
    \cup { <<"volumeStore.AddSandboxRef", j>> : j \in DOMAIN volumeFlags }

NoStatuses == <<>>

\* The command line is recorded by the specifications that observe it.
NoRequest == [op |-> "none"]

\* What the last command was and what it reported.  A command that stopped
\* before its first mutating call reports only its name and the error class.
\* Of a delete, errors is what the returned error names and failures what
\* the two cleanups returned (volumeErr and fileMountErr).
Report(op, name, outcome) ==
    [op |-> op, name |-> name, outcome |-> outcome,
     policy |-> "", confirmed |-> FALSE, deleteVolumes |-> FALSE, force |-> FALSE,
     volume |-> NoName, statuses |-> NoStatuses, errors |-> <<>>,
     failures |-> <<>>, log |-> <<>>]

\* Variant of NameTaken that finds every name free.
NameTakenNever(store, name) == FALSE

\* A name given with --name is taken when the sandbox store has a record of it.
NameTaken(store, name) == Has(store, name)

\* answer: "--yes" (no prompt), "y" or "n" (the line read at the prompt),
\* "eof" (the prompt returned an error).
\* git: whether --git is given (the repository is the one at RepoRoot).
\* elapsed[i]: by how much the reading of time.Now().UnixNano() made for
\* mount i is later than the reading before it.
Create(name, mountFlags, volumeFlags, git, preset, answer, fault, elapsed) ==
    LET pm == parseMountFlags(mountFlags)
        pv == parseVolumeFlags(volumeFlags)
        gm == prepareGitMount(RepoRoot, fault)
        parseError == pm.err # "" \/ pv.err # ""
        gitError == git /\ gm.err
        mounts == pm.mounts
                  \o (IF git THEN <<gm.Mount>> ELSE <<>>)
                  \o (IF IsAgentPreset(preset) THEN RWCopyMounts(AllMounts(HomeDir))
                      ELSE <<>>)
        volumeMounts == pv.mounts
        inputError == parseError \/ gitError
                      \/ ~validateMountTargets(mounts, volumeMounts)
        exists == NameTaken(sandboxStore, name)
        \* The directories of os.MkdirTemp when the handler has returned: the
        \* cleanup is deferred once prepareGitMount has returned without error.
        atReturn == IF ~git \/ parseError THEN tempDirs
                    ELSE IF gm.err THEN tempDirs \cup gm.left
                    ELSE cleanupGitMount(tempDirs \cup gm.left, gm)
        declined == (Len(mounts) > 0 \/ Len(volumeMounts) > 0) /\ answer = "n"
        unanswered == (Len(mounts) > 0 \/ Len(volumeMounts) > 0) /\ answer = "eof"
        t0 == [volumeStore |-> volumeStore, dockerVolumes |-> dockerVolumes,
               fileMountStore |-> fileMountStore, fileMountDirs |-> fileMountDirs,
               containers |-> containers, clock |-> clock,
               runtimeMounts |-> <<>>, createdVolumes |-> <<>>, addedRefs |-> {},
               createdFileMountDirs |-> <<>>, addedFileRefs |-> {}, err |-> "",
               log |-> <<>>, elapsed |-> elapsed]
    IN  IF inputError \/ exists \/ declined \/ unanswered
        THEN /\ last' = Report("create", "",
                             IF parseError THEN "input-error"
                             ELSE IF gitError THEN "git-failed"
                             ELSE IF inputError THEN "input-error"
                             ELSE IF exists THEN "exists"
                             ELSE IF unanswered THEN "prompt-failed" ELSE "aborted")
             /\ tempDirs' = atReturn
             /\ UNCHANGED <<sandboxStore, volumeStore, fileMountStore, containers,
                            dockerVolumes, fileMountDirs, clock>>
        ELSE \E t1 \in {ResolveMounts(t0, name, mounts, 1, fault)} :
             \E t2 \in {AttachVolumes(t1, name, volumeMounts, 1, fault)} :
             \E r \in {CreateContainerAndSave(t2, sandboxStore, name, fault)} :
             /\ volumeStore' = r.t.volumeStore
             /\ dockerVolumes' = r.t.dockerVolumes
             /\ fileMountStore' = r.t.fileMountStore
             /\ fileMountDirs' = r.t.fileMountDirs
             /\ containers' = r.t.containers
             /\ clock' = r.t.clock
             /\ sandboxStore' = r.sandboxStore
             /\ tempDirs' = atReturn
             /\ last' = [Report("create", name, r.outcome)
                         EXCEPT !.log = IF r.outcome = "ok" THEN r.t.log ELSE <<>>]

(***************************************************************************)
(* sandbox delete.  A fault of delete is <<call, backing-store name>>.     *)
(***************************************************************************)
\* Variant of validateDeleteVolumeFlags that lets the two flags through
\* together.
validateDeleteVolumeFlagsAllowBoth(deleteVolumesSet, deleteVolumes, keepVolumesSet, keepVolumes) ==
    /\ ~(deleteVolumesSet /\ ~deleteVolumes)
    /\ ~(keepVolumesSet /\ ~keepVolumes)

\* TRUE when the flags are accepted.
validateDeleteVolumeFlags(deleteVolumesSet, deleteVolumes, keepVolumesSet, keepVolumes) ==
    /\ ~(deleteVolumesSet /\ ~deleteVolumes)
    /\ ~(keepVolumesSet /\ ~keepVolumes)
    /\ ~(deleteVolumesSet /\ keepVolumesSet)

Exclusive(store, sandboxName) ==
    SelectSeq(VolumesForSandbox(store, sandboxName),
              LAMBDA v : \A i \in DOMAIN v.SandboxRefs : v.SandboxRefs[i] = sandboxName)

\* Variant of resolveDeleteVolumes that deletes whenever the sandbox is the
\* sole reference of a store, whatever the answer.
resolveDeleteVolumesNoAnswer(vStore, fStore, sandboxName, deleteVolumesSet, keepVolumesSet, confirmed, faults) ==
    IF deleteVolumesSet THEN [err |-> FALSE, value |-> TRUE]
    ELSE IF keepVolumesSet THEN [err |-> FALSE, value |-> FALSE]
    ELSE IF <<"resolve.VolumesForSandbox", NoName>> \in faults
            \/ <<"resolve.FileMountsForSandbox", NoName>> \in faults
    THEN [err |-> TRUE, value |-> FALSE]
    ELSE [err |-> FALSE,
          value |-> Len(Exclusive(vStore, sandboxName))
                       + Len(Exclusive(fStore, sandboxName)) > 0]

\* [err, value]; confirmed is the answer read at the prompt, and the fault
\* promptForConfirmation stands for a prompt that returned an error.
resolveDeleteVolumes(vStore, fStore, sandboxName, deleteVolumesSet, keepVolumesSet, confirmed, faults) ==
    IF deleteVolumesSet THEN [err |-> FALSE, value |-> TRUE]
    ELSE IF keepVolumesSet THEN [err |-> FALSE, value |-> FALSE]
    ELSE IF <<"resolve.VolumesForSandbox", NoName>> \in faults
            \/ <<"resolve.FileMountsForSandbox", NoName>> \in faults
    THEN [err |-> TRUE, value |-> FALSE]
    ELSE IF Len(Exclusive(vStore, sandboxName)) + Len(Exclusive(fStore, sandboxName)) = 0
    THEN [err |-> FALSE, value |-> FALSE]
    ELSE IF <<"promptForConfirmation", NoName>> \in faults
    THEN [err |-> TRUE, value |-> FALSE]
    ELSE [err |-> FALSE, value |-> confirmed]

Line(kind, name, status) == [kind |-> kind, store |-> name, status |-> status]

\* Variant of CleanupVolume that deletes without asking whether the volume
\* is still referenced.
CleanupVolumeNoUsageCheck(c, volume, sandboxName, deleteVolumes, faults) ==
    LET n == volume.Name
        c1 == [c EXCEPT !.store = RemoveSandboxRef(@, n, sandboxName)]
    IN  IF <<"volumeStore.RemoveSandboxRef", n>> \in faults \/ ~Has(c.store, n)
        THEN [c EXCEPT !.statuses = Append(@, Line("volume", n,
                                        "delete-failed: failed to update refs")),
                       !.errs = Append(@, n)]
        ELSE IF ~deleteVolumes
        THEN [c1 EXCEPT !.statuses = Append(@, Line("volume", n, "preserved"))]
        ELSE [c1 EXCEPT !.store = Remove(@, n), !.phys = @ \ {n},
                        !.statuses = Append(@, Line("volume", n, "deleted"))]

\* Variant of CleanupVolume that drops the error of volumeStore.Remove.
CleanupVolumeIgnoresRecordError(c, volume, sandboxName, deleteVolumes, faults) ==
    LET n == volume.Name
        failed(status) == [c EXCEPT !.statuses = Append(@, Line("volume", n, status)),
                                    !.errs = Append(@, n)]
        c1 == [c EXCEPT !.store = RemoveSandboxRef(@, n, sandboxName)]
        c2 == [c1 EXCEPT !.phys = @ \ {n}]
    IN  IF <<"volumeStore.RemoveSandboxRef", n>> \in faults \/ ~Has(c.store, n)
        THEN failed("delete-failed: failed to update refs")
        ELSE IF ~deleteVolumes
        THEN [c1 EXCEPT !.statuses = Append(@, Line("volume", n, "preserved"))]
        ELSE IF <<"volumeStore.IsInUse", n>> \in faults
        THEN [failed("delete-failed: failed to check usage") EXCEPT !.store = c1.store]
        ELSE IF IsInUse(c1.store, n)
        THEN [c1 EXCEPT !.statuses =
                  Append(@, Line("volume", n, "preserved (still referenced)"))]
        ELSE IF <<"removeVolumeFn", n>> \in faults
        THEN [failed("delete-failed: remove volume") EXCEPT !.store = c1.store]
        ELSE [c2 EXCEPT !.store = IF <<"volumeStore.Remove", n>> \in faults THEN @
                                  ELSE Remove(@, n),
                        !.statuses = Append(@, Line("volume", n, "deleted"))]

\* Variant of CleanupVolume that removes the record of a volume whose
\* physical deletion failed.
CleanupVolumeDropsRecord(c, volume, sandboxName, deleteVolumes, faults) ==
    LET n == volume.Name
        failed(status) == [c EXCEPT !.statuses = Append(@, Line("volume", n, status)),
                                    !.errs = Append(@, n)]
        c1 == [c EXCEPT !.store = RemoveSandboxRef(@, n, sandboxName)]
        c2 == [c1 EXCEPT !.phys = @ \ {n}]
    IN  IF <<"volumeStore.RemoveSandboxRef", n>> \in faults \/ ~Has(c.store, n)
        THEN failed("delete-failed: failed to update refs")
        ELSE IF ~deleteVolumes
        THEN [c1 EXCEPT !.statuses = Append(@, Line("volume", n, "preserved"))]
        ELSE IF <<"volumeStore.IsInUse", n>> \in faults
        THEN [failed("delete-failed: failed to check usage") EXCEPT !.store = c1.store]
        ELSE IF IsInUse(c1.store, n)
        THEN [c1 EXCEPT !.statuses =
                  Append(@, Line("volume", n, "preserved (still referenced)"))]
        ELSE IF <<"removeVolumeFn", n>> \in faults
        THEN [failed("delete-failed: remove volume") EXCEPT !.store = Remove(c1.store, n)]
        ELSE IF <<"volumeStore.Remove", n>> \in faults
        THEN [failed("delete-failed: failed to remove state entry")
                  EXCEPT !.store = c2.store, !.phys = c2.phys]
        ELSE [c2 EXCEPT !.store = Remove(@, n),
                        !.statuses = Append(@, Line("volume", n, "deleted"))]

CleanupVolume(c, volume, sandboxName, deleteVolumes, faults) ==
    LET n == volume.Name
        failed(status) == [c EXCEPT !.statuses = Append(@, Line("volume", n, status)),
                                    !.errs = Append(@, n)]
        c1 == [c EXCEPT !.store = RemoveSandboxRef(@, n, sandboxName)]
        c2 == [c1 EXCEPT !.phys = @ \ {n}]
    IN  IF <<"volumeStore.RemoveSandboxRef", n>> \in faults \/ ~Has(c.store, n)
        THEN failed("delete-failed: failed to update refs")
        ELSE IF ~deleteVolumes
        THEN [c1 EXCEPT !.statuses = Append(@, Line("volume", n, "preserved"))]
        ELSE IF <<"volumeStore.IsInUse", n>> \in faults
        THEN [failed("delete-failed: failed to check usage") EXCEPT !.store = c1.store]
        ELSE IF IsInUse(c1.store, n)
        THEN [c1 EXCEPT !.statuses =
                  Append(@, Line("volume", n, "preserved (still referenced)"))]
        ELSE IF <<"removeVolumeFn", n>> \in faults
        THEN [failed("delete-failed: remove volume") EXCEPT !.store = c1.store]
        ELSE IF <<"volumeStore.Remove", n>> \in faults
        THEN [failed("delete-failed: failed to remove state entry")
                  EXCEPT !.store = c2.store, !.phys = c2.phys]
        ELSE [c2 EXCEPT !.store = Remove(@, n),
                        !.statuses = Append(@, Line("volume", n, "deleted"))]

RECURSIVE CleanupVolumesFrom(_, _, _, _, _, _)
CleanupVolumesFrom(c, volumes, i, sandboxName, deleteVolumes, faults) ==
    IF i > Len(volumes) THEN c
    ELSE CHOOSE r \in { CleanupVolumesFrom(u, volumes, i + 1, sandboxName, deleteVolumes, faults) :
                            u \in {CleanupVolume(c, volumes[i], sandboxName, deleteVolumes, faults)} } : TRUE

\* Variant of cleanupSandboxVolumes that, when volumes are kept, reports them
\* preserved before releasing the reference.
cleanupSandboxVolumesKeepRefs(vStore, phys, sandboxName, deleteVolumes, faults) ==
    LET c0 == [store |-> vStore, phys |-> phys, statuses |-> <<>>, errs |-> <<>>]
        volumes == VolumesForSandbox(vStore, sandboxName)
    IN  IF <<"cleanup.VolumesForSandbox", NoName>> \in faults
        THEN [c0 EXCEPT !.errs = <<NoName>>]
        ELSE IF ~deleteVolumes
        THEN [c0 EXCEPT !.statuses =
                  [i \in DOMAIN volumes |-> [kind |-> "volume", store |-> volumes[i].Name,
                                             status |-> "preserved"]]]
        ELSE CleanupVolumesFrom(c0, volumes, 1, sandboxName, deleteVolumes, faults)

\* c = [store, phys, statuses, errs]; errs holds, for each message of the
\* joined error, the store it names (NoName for the error of the listing).
cleanupSandboxVolumes(vStore, phys, sandboxName, deleteVolumes, faults) ==
    LET c0 == [store |-> vStore, phys |-> phys, statuses |-> <<>>, errs |-> <<>>]
    IN  IF <<"cleanup.VolumesForSandbox", NoName>> \in faults
        THEN [c0 EXCEPT !.errs = <<NoName>>]
        ELSE CleanupVolumesFrom(c0, VolumesForSandbox(vStore, sandboxName), 1,
                                sandboxName, deleteVolumes, faults)

\* Variant of CleanupFileMount that reports a kept file mount preserved
\* without releasing the reference.
CleanupFileMountKeepsRef(c, fm, sandboxName, deleteMounts, faults) ==
    LET n == fm.Name
        c1 == [c EXCEPT !.store = RemoveSandboxRef(@, n, sandboxName)]
    IN  IF <<"fileMountStore.RemoveSandboxRef", n>> \in faults \/ ~Has(c.store, n)
        THEN [c EXCEPT !.statuses = Append(@, Line("file-mount", n,
                                        "delete-failed: failed to update refs")),
                       !.errs = Append(@, n)]
        ELSE IF ~deleteMounts \/ IsInUse(c1.store, n)
        THEN [c EXCEPT !.statuses = Append(@, Line("file-mount", n, "preserved"))]
        ELSE [c1 EXCEPT !.store = Remove(@, n), !.phys = @ \ {Dir(fm.CopyPath)},
                        !.statuses = Append(@, Line("file-mount", n, "deleted"))]

CleanupFileMount(c, fm, sandboxName, deleteMounts, faults) ==
    LET n == fm.Name
        failed(status) == [c EXCEPT !.statuses = Append(@, Line("file-mount", n, status)),
                                    !.errs = Append(@, n)]
        c1 == [c EXCEPT !.store = RemoveSandboxRef(@, n, sandboxName)]
        c2 == [c1 EXCEPT !.phys = @ \ {Dir(fm.CopyPath)}]
    IN  IF <<"fileMountStore.RemoveSandboxRef", n>> \in faults \/ ~Has(c.store, n)
        THEN failed("delete-failed: failed to update refs")
        ELSE IF ~deleteMounts
        THEN [c1 EXCEPT !.statuses = Append(@, Line("file-mount", n, "preserved"))]
        ELSE IF <<"fileMountStore.IsInUse", n>> \in faults
        THEN [failed("delete-failed: failed to check usage") EXCEPT !.store = c1.store]
        ELSE IF IsInUse(c1.store, n)
        THEN [c1 EXCEPT !.statuses =
                  Append(@, Line("file-mount", n, "preserved (still referenced)"))]
        ELSE IF <<"os.RemoveAll", n>> \in faults
        THEN [failed("delete-failed: remove directory") EXCEPT !.store = c1.store]
        ELSE IF <<"fileMountStore.Remove", n>> \in faults
        THEN [failed("delete-failed: failed to remove state entry")
                  EXCEPT !.store = c2.store, !.phys = c2.phys]
        ELSE [c2 EXCEPT !.store = Remove(@, n),
                        !.statuses = Append(@, Line("file-mount", n, "deleted"))]

RECURSIVE CleanupFileMountsFrom(_, _, _, _, _, _)
CleanupFileMountsFrom(c, mounts, i, sandboxName, deleteMounts, faults) ==
    IF i > Len(mounts) THEN c
    ELSE CHOOSE r \in { CleanupFileMountsFrom(u, mounts, i + 1, sandboxName, deleteMounts, faults) :
                            u \in {CleanupFileMount(c, mounts[i], sandboxName, deleteMounts, faults)} } : TRUE

cleanupSandboxFileMounts(fStore, phys, sandboxName, deleteMounts, faults) ==
    LET c0 == [store |-> fStore, phys |-> phys, statuses |-> <<>>, errs |-> <<>>]
    IN  IF <<"cleanup.FileMountsForSandbox", NoName>> \in faults
        THEN [c0 EXCEPT !.errs = <<NoName>>]
        ELSE CleanupFileMountsFrom(c0, FileMountsForSandbox(fStore, sandboxName), 1,
                                   sandboxName, deleteMounts, faults)

RECURSIVE SubsetsUpTo(_, _)
SubsetsUpTo(S, k) ==
    IF k = 0 THEN {{}}
    ELSE LET P == SubsetsUpTo(S, k - 1)
         IN  P \cup { p \cup {x} : p \in P, x \in S }

\* The fallible calls a delete of this sandbox can reach.
DeleteFaults(name, policy) ==
    { <<"RemoveDockerSandbox", NoName>>, <<"store.Remove", NoName>>,
      <<"cleanup.VolumesForSandbox", NoName>>, <<"cleanup.FileMountsForSandbox", NoName>> }
    \cup (IF policy = "auto"
          THEN { <<"resolve.VolumesForSandbox", NoName>>,
                 <<"resolve.FileMountsForSandbox", NoName>> }
          ELSE {})
    \cup { <<c, v.Name>> : c \in { "volumeStore.RemoveSandboxRef", "volumeStore.IsInUse",
                                   "removeVolumeFn", "volumeStore.Remove" },
                           v \in Range(VolumesForSandbox(volumeStore, name)) }
    \cup { <<c, m.Name>> : c \in { "fileMountStore.RemoveSandboxRef", "fileMountStore.IsInUse",
                                   "os.RemoveAll", "fileMountStore.Remove" },
                           m \in Range(FileMountsForSandbox(fileMountStore, name)) }

\* Variant of RemoveDockerSandbox that drops the error of the docker command.
RemoveDockerSandboxUnchecked(cs, name, absentOk, faults) ==
    IF \/ <<"RemoveDockerSandbox", NoName>> \in faults
       \/ name \notin cs /\ ~absentOk
    THEN [err |-> FALSE, containers |-> cs]
    ELSE [err |-> FALSE, containers |-> cs \ {name}]

\* docker rm -f <name>: [err, containers].
RemoveDockerSandbox(cs, name, absentOk, faults) ==
    IF \/ <<"RemoveDockerSandbox", NoName>> \in faults
       \/ name \notin cs /\ ~absentOk
    THEN [err |-> TRUE, containers |-> cs]
    ELSE [err |-> FALSE, containers |-> cs \ {name}]

\* policy: "delete" (--delete-volumes), "keep" (--keep-volumes), "auto"
\* (neither) or "both".  absentOk: whether docker rm -f of a name that has
\* no container exits 0 (it depends on the docker version).
Delete(name, policy, confirmed, absentOk, faults) ==
    LET deleteVolumesSet == policy \in {"delete", "both"}
        keepVolumesSet == policy \in {"keep", "both"}
        flagsOk == validateDeleteVolumeFlags(deleteVolumesSet, deleteVolumesSet,
                                             keepVolumesSet, keepVolumesSet)
        found == Has(sandboxStore, name)
        info == Get(sandboxStore, name)
        r == resolveDeleteVolumes(volumeStore, fileMountStore, name,
                                  deleteVolumesSet, keepVolumesSet, confirmed, faults)
        rm == IF info.Provider = "docker"
              THEN RemoveDockerSandbox(containers, name, absentOk, faults)
              ELSE [err |-> FALSE, containers |-> containers]
        recordRemoveFailed == <<"store.Remove", NoName>> \in faults
        early(outcome) ==
            /\ last' = [Report("delete", "", outcome)
                        EXCEPT !.policy = IF outcome = "flag-error" THEN policy ELSE ""]
            /\ UNCHANGED <<sandboxStore, volumeStore, fileMountStore, containers,
                           dockerVolumes, fileMountDirs, clock>>
    IN  IF ~flagsOk THEN early("flag-error")
        ELSE IF ~found THEN early("not-found")
        ELSE IF r.err THEN early("resolve-failed")
        ELSE IF rm.err THEN early("remove-container-failed")
        ELSE \E cv \in {cleanupSandboxVolumes(volumeStore, dockerVolumes, name,
                                               r.value, faults)} :
             \E cf \in {cleanupSandboxFileMounts(fileMountStore, fileMountDirs, name,
                                                  r.value, faults)} :
             /\ containers' = rm.containers
             /\ volumeStore' = cv.store
             /\ dockerVolumes' = cv.phys
             /\ fileMountStore' = cf.store
             /\ fileMountDirs' = cf.phys
             /\ sandboxStore' = IF recordRemoveFailed THEN sandboxStore
                                ELSE Remove(sandboxStore, name)
             /\ UNCHANGED clock
             /\ last' = [Report("delete", name,
                                IF recordRemoveFailed THEN "record-remove-failed"
                                ELSE IF cv.errs \o cf.errs # <<>> THEN "cleanup-failed"
                                ELSE "ok")
                         EXCEPT !.policy = policy, !.confirmed = confirmed,
                                !.deleteVolumes = r.value,
                                !.statuses = IF recordRemoveFailed THEN NoStatuses
                                             ELSE cv.statuses \o cf.statuses,
                                !.errors = IF recordRemoveFailed THEN <<>>
                                           ELSE IF cv.errs # <<>> THEN cv.errs
                                           ELSE cf.errs,
                                !.failures = cv.errs \o cf.errs]

(***************************************************************************)
(* volume delete.                                                          *)
(***************************************************************************)
\* [err, store, phys]
\* Variant of deleteTrackedVolume without the in-use guard.
deleteTrackedVolumeNoGuard(store, phys, name, force, fault) ==
    IF ~Has(store, name) THEN [err |-> "store.Get", store |-> store, phys |-> phys]
    ELSE IF fault = "removeVolumeFn"
    THEN [err |-> "removeVolumeFn", store |-> store, phys |-> phys]
    ELSE IF fault = "store.Remove"
    THEN [err |-> "store.Remove", store |-> store, phys |-> phys \ {name}]
    ELSE [err |-> "", store |-> Remove(store, name), phys |-> phys \ {name}]

deleteTrackedVolume(store, phys, name, force, fault) ==
    IF ~Has(store, name) THEN [err |-> "store.Get", store |-> store, phys |-> phys]
    ELSE IF Len(Get(store, name).SandboxRefs) > 0 /\ ~force
    THEN [err |-> "in-use", store |-> store, phys |-> phys]
    ELSE IF fault = "removeVolumeFn"
    THEN [err |-> "removeVolumeFn", store |-> store, phys |-> phys]
    ELSE IF fault = "store.Remove"
    THEN [err |-> "store.Remove", store |-> store, phys |-> phys \ {name}]
    ELSE [err |-> "", store |-> Remove(store, name), phys |-> phys \ {name}]

\* Variant of deleteTrackedFileMount that removes the record before the
\* copy directory.
deleteTrackedFileMountRecordFirst(store, phys, name, force, fault) ==
    IF ~Has(store, name) THEN [err |-> "store.Get", store |-> store, phys |-> phys]
    ELSE LET fm == Get(store, name)
         IN  IF Len(fm.SandboxRefs) > 0 /\ ~force
             THEN [err |-> "in-use", store |-> store, phys |-> phys]
             ELSE IF fault = "store.Remove"
             THEN [err |-> "store.Remove", store |-> store, phys |-> phys]
             ELSE IF fault = "os.RemoveAll"
             THEN [err |-> "os.RemoveAll", store |-> Remove(store, name), phys |-> phys]
             ELSE [err |-> "", store |-> Remove(store, name),
                   phys |-> phys \ {Dir(fm.CopyPath)}]

deleteTrackedFileMount(store, phys, name, force, fault) ==
    IF ~Has(store, name) THEN [err |-> "store.Get", store |-> store, phys |-> phys]
    ELSE LET fm == Get(store, name)
         IN  IF Len(fm.SandboxRefs) > 0 /\ ~force
             THEN [err |-> "in-use", store |-> store, phys |-> phys]
             ELSE IF fault = "os.RemoveAll"
             THEN [err |-> "os.RemoveAll", store |-> store, phys |-> phys]
             ELSE IF fault = "store.Remove"
             THEN [err |-> "store.Remove", store |-> store,
                   phys |-> phys \ {Dir(fm.CopyPath)}]
             ELSE [err |-> "", store |-> Remove(store, name),
                   phys |-> phys \ {Dir(fm.CopyPath)}]

VolumeDelete(name, force, fault) ==
    LET dv == deleteTrackedVolume(volumeStore, dockerVolumes, name, force, fault)
        df == deleteTrackedFileMount(fileMountStore, fileMountDirs, name, force, fault)
        report(err) == IF err = "not-found" THEN Report("volume-delete", "", err)
                       ELSE [Report("volume-delete", "", IF err = "" THEN "ok" ELSE err)
                                EXCEPT !.force = force, !.volume = name]
    IN  IF Has(volumeStore, name)
        THEN /\ volumeStore' = dv.store
             /\ dockerVolumes' = dv.phys
             /\ last' = report(dv.err)
             /\ UNCHANGED <<sandboxStore, fileMountStore, containers, fileMountDirs, clock>>
        ELSE IF Has(fileMountStore, name)
        THEN /\ fileMountStore' = df.store
             /\ fileMountDirs' = df.phys
             /\ last' = report(df.err)
             /\ UNCHANGED <<sandboxStore, volumeStore, containers, dockerVolumes, clock>>
        ELSE /\ last' = report("not-found")
             /\ UNCHANGED <<sandboxStore, volumeStore, fileMountStore, containers,
                            dockerVolumes, fileMountDirs, clock>>

(***************************************************************************)
(* The state machine.                                                      *)
(***************************************************************************)
Init ==
    /\ sandboxStore = <<>>
    /\ volumeStore = <<>>
    /\ fileMountStore = <<>>
    /\ containers = {}
    /\ dockerVolumes = {}
    /\ fileMountDirs = {}
    /\ tempDirs = {}
    /\ clock = 0
    /\ ops = 0
    /\ last = Report("init", "", "ok")
    /\ request = NoRequest
    /\ volumesFile = <<>>

VolumeFlagChoices ==
    { [Volume |-> n, Target |-> tg, Mode |-> "rw"] :
        n \in Names(volumeStore) \cup {UntrackedVolume}, tg \in {TargetV} }

\* The delete prompt is shown, and an answer read, only when the sandbox is
\* the sole reference of some backing store.
Prompted(name) ==
    Len(Exclusive(volumeStore, name)) + Len(Exclusive(fileMountStore, name)) > 0

Tick ==
    /\ ops < MaxOps
    /\ ops' = ops + 1
    /\ request' = NoRequest
    /\ UNCHANGED volumesFile

CreateStep ==
    /\ Tick
    /\ \E name \in SandboxNames :
       \E mountFlags \in SeqsUpTo(MountCatalog, MaxMounts) :
       \E volumeFlags \in SeqsUpTo(VolumeFlagChoices, MaxVolumes) :
       \E answer \in {"--yes", "n"} :
       \E fault \in (IF answer = "--yes" THEN CreateFaults(mountFlags, volumeFlags)
                      ELSE {NoFault}) :
           Create(name, mountFlags, volumeFlags, FALSE, "", answer, fault,
                  StrictClock(Len(mountFlags)))

DeleteStep ==
    /\ Tick
    /\ \E name \in SandboxNames :
       \E policy \in {"delete", "keep", "auto", "both"} :
       \E confirmed \in (IF policy = "auto" /\ Prompted(name) THEN BOOLEAN ELSE {FALSE}) :
       \E absentOk \in (IF name \in containers THEN {FALSE} ELSE BOOLEAN) :
       \E faults \in SubsetsUpTo(DeleteFaults(name, policy), MaxDeleteFaults) :
           Delete(name, policy, confirmed, absentOk, faults)
    /\ UNCHANGED tempDirs

VolumeDeleteStep ==
    /\ Tick
    /\ \E name \in Names(volumeStore) \cup Names(fileMountStore) \cup {UntrackedVolume} :
       \E force \in BOOLEAN :
       \E fault \in {"", "removeVolumeFn", "os.RemoveAll", "store.Remove"} :
           VolumeDelete(name, force, fault)
    /\ UNCHANGED tempDirs

Next == CreateStep \/ DeleteStep \/ VolumeDeleteStep

Spec == Init /\ [][Next]_vars

(***************************************************************************)
(* SpecRequests: two commands, each with its command line on record.  A    *)
(* command is submitted (its command line is put into `request`), run (the *)
(* whole handler, as in Spec) and returns (the command line is cleared).   *)
(* The creates draw their flags from a wider catalog: targets shared       *)
(* between the two flag forms and with the injected mounts, a relative     *)
(* target, --git and --preset; of their calls only the preparation of the  *)
(* git repository may fail.  The deletes take up to MaxRequestFaults       *)
(* faults.                                                                 *)
(***************************************************************************)
RelativeTarget == <<"a">>
GitTarget == prepareGitMount(RepoRoot, NoFault).Mount.Target
ClaudeJSONTarget == containerHome \o <<"/", ".", "claude", ".", "json">>

RequestMountCatalog ==
    { [Source |-> SrcTree, Target |-> TargetA, Mode |-> "rwcopy"],
      [Source |-> SrcTree, Target |-> GitTarget, Mode |-> "rwcopy"],
      [Source |-> SrcFile, Target |-> ClaudeJSONTarget, Mode |-> "rwcopy"],
      [Source |-> SrcTree, Target |-> RelativeTarget, Mode |-> "rwcopy"] }

RequestVolumeChoices ==
    { [Volume |-> n, Target |-> tg, Mode |-> "rw"] :
        n \in Names(volumeStore) \cup {UntrackedVolume},
        tg \in {TargetV, GitTarget, RelativeTarget} }

\* The stores, the runtime and the clock: all that a command can change.
world == <<sandboxStore, volumeStore, fileMountStore, containers,
           dockerVolumes, fileMountDirs, tempDirs, clock>>

Pending(op) == request.op = op /\ request.phase = "pending"

SubmitCreate ==
    /\ request = NoRequest
    /\ ops < MaxRequestOps
    /\ \E name \in SandboxNames :
       \E mountFlags \in SeqsUpTo(RequestMountCatalog, MaxRequestMounts) :
       \E volumeFlags \in SeqsUpTo(RequestVolumeChoices, MaxRequestVolumes) :
       \E git \in BOOLEAN :
       \E preset \in {"", "claude"} :
       \E fault \in (IF git THEN {NoFault, <<"cloneFn", 0>>} ELSE {NoFault}) :
           request' = [op |-> "create", phase |-> "pending", name |-> name,
                       mountFlags |-> mountFlags, volumeFlags |-> volumeFlags,
                       git |-> git, preset |-> preset, fault |-> fault]
    /\ UNCHANGED <<world, ops, last, volumesFile>>

SubmitDelete ==
    /\ request = NoRequest
    /\ ops < MaxRequestOps
    /\ \E name \in SandboxNames :
       \E policy \in {"delete", "keep", "auto", "both"} :
       \E confirmed \in (IF policy = "auto" /\ Prompted(name) THEN BOOLEAN ELSE {FALSE}) :
       \E absentOk \in (IF name \in containers THEN {FALSE} ELSE BOOLEAN) :
       \E faults \in SubsetsUpTo(DeleteFaults(name, policy), MaxRequestFaults) :
           request' = [op |-> "delete", phase |-> "pending", name |-> name,
                       policy |-> policy, confirmed |-> confirmed,
                       absentOk |-> absentOk, faults |-> faults]
    /\ UNCHANGED <<world, ops, last, volumesFile>>

RunCreate ==
    /\ Pending("create")
    /\ Create(request.name, request.mountFlags, request.volumeFlags,
              request.git, request.preset, "--yes", request.fault,
              StrictClock(Len(request.mountFlags) + MaxInjectedMounts))
    /\ ops' = ops + 1
    /\ request' = [request EXCEPT !.phase = "done"]
    /\ UNCHANGED volumesFile

RunDelete ==
    /\ Pending("delete")
    /\ Delete(request.name, request.policy, request.confirmed,
              request.absentOk, request.faults)
    /\ ops' = ops + 1
    /\ request' = [request EXCEPT !.phase = "done"]
    /\ UNCHANGED <<volumesFile, tempDirs>>

Return ==
    /\ request # NoRequest
    /\ request.phase = "done"
    /\ ops < MaxRequestOps
    /\ request' = NoRequest
    /\ UNCHANGED <<world, ops, last, volumesFile>>

NextRequests == SubmitCreate \/ SubmitDelete \/ RunCreate \/ RunDelete \/ Return

SpecRequests == Init /\ [][NextRequests]_vars

(***************************************************************************)
(* SpecMounts: two creates, each with its command line on record, over     *)
(* the mounts that Spec leaves out: a read-only mount, a source that is    *)
(* missing, a source that is neither a directory nor a regular file, and   *)
(* targets that differ only in the characters the name minter replaces.    *)
(* The clock may give the name minter the reading it gave before.          *)
(***************************************************************************)
TargetUnderscore == <<"/", "a", "_", "b">>
TargetDot == <<"/", "a", ".", "b">>
TargetNested == <<"/", "a", "/", "b">>

MountsCatalog ==
    { [Source |-> SrcTree, Target |-> TargetUnderscore, Mode |-> "rwcopy"],
      [Source |-> SrcTree, Target |-> TargetDot, Mode |-> "rwcopy"],
      [Source |-> SrcFile, Target |-> TargetNested, Mode |-> "rwcopy"],
      [Source |-> SrcTree, Target |-> TargetA, Mode |-> "ro"],
      [Source |-> SrcGone, Target |-> TargetB, Mode |-> "rwcopy"],
      [Source |-> DevNull, Target |-> TargetB, Mode |-> "rwcopy"] }

SubmitMounts ==
    /\ request = NoRequest
    /\ ops < MaxMountOps
    /\ \E name \in SandboxNames :
       \E mountFlags \in SeqsUpTo(MountsCatalog, MaxMountFlags) :
       \E fault \in CreateFaults(mountFlags, <<>>) :
       \E elapsed \in [1..Len(mountFlags) -> {0, 1}] :
           request' = [op |-> "create", phase |-> "pending", name |-> name,
                       mountFlags |-> mountFlags, fault |-> fault,
                       elapsed |-> elapsed]
    /\ UNCHANGED <<world, ops, last, volumesFile>>

RunMounts ==
    /\ Pending("create")
    /\ Create(request.name, request.mountFlags, <<>>, FALSE, "", "--yes",
              request.fault, request.elapsed)
    /\ ops' = ops + 1
    /\ request' = [request EXCEPT !.phase = "done"]
    /\ UNCHANGED volumesFile

ReturnMounts ==
    /\ request # NoRequest
    /\ request.phase = "done"
    /\ ops < MaxMountOps
    /\ request' = NoRequest
    /\ UNCHANGED <<world, ops, last, volumesFile>>

NextMounts == SubmitMounts \/ RunMounts \/ ReturnMounts

SpecMounts == Init /\ [][NextMounts]_vars

(***************************************************************************)
(* SpecGit: two creates with --git, each with its command line on record,  *)
(* over every way such a create can end: any call of the preparation, of   *)
(* the resolution, of the attach, of the runtime or of the save may fail,  *)
(* the name may be taken, a volume may name the target of the repository   *)
(* and the confirmation may be declined.                                   *)
(***************************************************************************)
GitMountCatalog == { [Source |-> SrcTree, Target |-> TargetA, Mode |-> "rwcopy"] }

GitVolumeChoices ==
    { [Volume |-> UntrackedVolume, Target |-> tg, Mode |-> "rw"] :
        tg \in {TargetV, GitTarget} }

\* The fallible calls a create with --git and these flags can reach: those
\* of the preparation, those of the flags and those of the resolution of
\* the repository mount, which comes after the --mount flags.
GitCreateFaults(mountFlags, volumeFlags) ==
    GitFaults \cup CreateFaults(mountFlags, volumeFlags)
    \cup { <<call, Len(mountFlags) + 1>> :
             call \in {"os.Stat", "CreateDockerVolume", "CopyHostDirToVolume",
                       "volumeStore.Save"} }

SubmitGit ==
    /\ request = NoRequest
    /\ ops < MaxGitOps
    /\ \E name \in SandboxNames :
       \E mountFlags \in SeqsUpTo(GitMountCatalog, 1) :
       \E volumeFlags \in SeqsUpTo(GitVolumeChoices, 1) :
       \E answer \in {"--yes", "n"} :
       \E fault \in (IF answer = "n" THEN {NoFault} \cup GitFaults
                      ELSE GitCreateFaults(mountFlags, volumeFlags)) :
           request' = [op |-> "create", phase |-> "pending", name |-> name,
                       mountFlags |-> mountFlags, volumeFlags |-> volumeFlags,
                       git |-> TRUE, answer |-> answer, fault |-> fault]
    /\ UNCHANGED <<world, ops, last, volumesFile>>

RunGit ==
    /\ Pending("create")
    /\ Create(request.name, request.mountFlags, request.volumeFlags, request.git,
              "", request.answer, request.fault,
              StrictClock(Len(request.mountFlags) + 1))
    /\ ops' = ops + 1
    /\ request' = [request EXCEPT !.phase = "done"]
    /\ UNCHANGED volumesFile

ReturnGit ==
    /\ request # NoRequest
    /\ request.phase = "done"
    /\ ops < MaxGitOps
    /\ request' = NoRequest
    /\ UNCHANGED <<world, ops, last, volumesFile>>

NextGit == SubmitGit \/ RunGit \/ ReturnGit

SpecGit == Init /\ [][NextGit]_vars

(***************************************************************************)
(* SpecStore: the methods of the directory-volume store, called one after  *)
(* the other on a file, each call with the way it goes.  The file the      *)
(* first call finds was written by a version of the program whose records  *)
(* may have a field (labels) that VolumeInfo does not declare.  `request`  *)
(* holds the last call and the error it returned.                          *)
(***************************************************************************)
StoreVolumes == {<<"v1">>, <<"v2">>}

StoreRecords ==
    [Name : StoreVolumes, CreatedBy : {"", "rwcopy"}, SourcePath : {SrcTree},
     SandboxRefs : {<<>>, <<"s1">>, <<"s2", "s1">>}]

StoredLines ==
    { [Marshal(info) EXCEPT !.unknown = u] :
        info \in { r \in StoreRecords : r.CreatedBy = "rwcopy" },
        u \in {{}, {"labels"}} }

StoreFiles ==
    { file \in SeqsUpTo(StoredLines, MaxStoreLines) :
        \A i, j \in DOMAIN file : i < j => file[i].Name # file[j].Name }

InitStore ==
    /\ sandboxStore = <<>>
    /\ volumeStore = <<>>
    /\ fileMountStore = <<>>
    /\ containers = {}
    /\ dockerVolumes = {}
    /\ fileMountDirs = {}
    /\ tempDirs = {}
    /\ clock = 0
    /\ ops = 0
    /\ last = Report("init", "", "ok")
    /\ request = NoRequest
    /\ volumesFile \in StoreFiles

\* The zero VolumeInfo, for the calls that take no record.
NoRecord == [Name |-> <<>>, CreatedBy |-> "", SourcePath |-> <<>>, SandboxRefs |-> <<>>]

\* The ways a call that would write n lines can go.
Runs(n) ==
    {Run("ok", 0, FALSE), Run("readAll", 0, FALSE), Run("os.Create", 0, FALSE)}
    \cup { Run("write", k, torn) : k \in 0..(n - 1), torn \in BOOLEAN }

StoreCall(op, info, name, sandbox, run, r) ==
    /\ ops < MaxStoreOps
    /\ ops' = ops + 1
    /\ volumesFile' = r.file
    /\ request' = [op |-> op, info |-> info, name |-> name, sandbox |-> sandbox,
                   run |-> run, err |-> r.err]
    /\ UNCHANGED <<world, last>>

StoreSave ==
    \E info \in StoreRecords :
    \E run \in Runs(Len(Save(readAll(volumesFile), info))) :
        StoreCall("Save", info, info.Name, "", run, fileSave(volumesFile, info, run))

StoreRemove ==
    \E name \in StoreVolumes :
    \E run \in Runs(Len(Remove(readAll(volumesFile), name))) :
        StoreCall("Remove", NoRecord, name, "", run, fileRemove(volumesFile, name, run))

StoreAddSandboxRef ==
    \E name \in StoreVolumes :
    \E sandbox \in SandboxNames :
    \E run \in Runs(Len(readAll(volumesFile))) :
        StoreCall("AddSandboxRef", NoRecord, name, sandbox, run,
                  fileAddSandboxRef(volumesFile, name, sandbox, run))

StoreRemoveSandboxRef ==
    \E name \in StoreVolumes :
    \E sandbox \in SandboxNames :
    \E run \in Runs(Len(readAll(volumesFile))) :
        StoreCall("RemoveSandboxRef", NoRecord, name, sandbox, run,
                  fileRemoveSandboxRef(volumesFile, name, sandbox, run))

NextStore == StoreSave \/ StoreRemove \/ StoreAddSandboxRef \/ StoreRemoveSandboxRef

SpecStore == InitStore /\ [][NextStore]_vars

(***************************************************************************)
(* SpecPrompt: two commands that read their confirmation from standard     *)
(* input, a create without --yes and a delete with neither volume flag,    *)
(* each with its command line and its input on record.  The input is a     *)
(* sequence of characters: lines that end in a newline, and possibly a     *)
(* last one that does not.                                                 *)
(***************************************************************************)
\* Variant of ToLower that leaves the capitals.
ToLowerKeepsCase(s) == s

\* strings.ToLower, over the letters the inputs are made of.
ToLower(s) ==
    LET lower == [c \in {"Y", "E", "S", "N", "O"} |->
                     CASE c = "Y" -> "y" [] c = "E" -> "e" [] c = "S" -> "s"
                       [] c = "N" -> "n" [] c = "O" -> "o"]
    IN  [i \in DOMAIN s |-> IF s[i] \in DOMAIN lower THEN lower[s[i]] ELSE s[i]]

\* strings.TrimSpace: what is between the first and the last character that
\* is not white space.
TrimSpace(s) ==
    LET black == { i \in DOMAIN s : s[i] \notin {" ", "\t", "\r", "\n"} }
    IN  IF black = {} THEN <<>>
        ELSE SubSeq(s, CHOOSE i \in black : \A j \in black : i <= j,
                       CHOOSE i \in black : \A j \in black : j <= i)

\* [value, err, prompts]: reader.ReadString('\n') returns an error when the
\* input has no newline left, whatever it has read; prompts counts the
\* times "Continue? [y/n] " is printed.
RECURSIVE promptForConfirmation(_)
promptForConfirmation(reader) ==
    LET ends == { i \in DOMAIN reader : reader[i] = "\n" }
    IN  IF ends = {} THEN [value |-> FALSE, err |-> TRUE, prompts |-> 1]
        ELSE LET k == CHOOSE i \in ends : \A j \in ends : i <= j
                 answer == TrimSpace(ToLower(SubSeq(reader, 1, k)))
                 again == promptForConfirmation(SubSeq(reader, k + 1, Len(reader)))
             IN  IF answer \in {<<"y">>, <<"y", "e", "s">>}
                 THEN [value |-> TRUE, err |-> FALSE, prompts |-> 1]
                 ELSE IF answer \in {<<"n">>, <<"n", "o">>}
                 THEN [value |-> FALSE, err |-> FALSE, prompts |-> 1]
                 ELSE [again EXCEPT !.prompts = @ + 1]

\* What standard input may hold: up to MaxPromptLines lines, then possibly
\* characters without a newline after them.
Stdins ==
    LET lines == { <<"y">>, <<"Y", "E", "S">>, <<"\t", "Y", " ">>, <<" ", "n", "\r">>,
                   <<"N", "o">>, <<>>, <<" ">>, <<"m">>, <<"y", " ", "e", "s">> }
        rests == { <<>>, <<"y">>, <<"n", "o">> }
        Flat[ls \in SeqsUpTo(lines, MaxPromptLines)] ==
            IF ls = <<>> THEN <<>> ELSE Head(ls) \o <<"\n">> \o Flat[Tail(ls)]
    IN  { Flat[ls] \o rest : ls \in SeqsUpTo(lines, MaxPromptLines), rest \in rests }

SubmitPromptCreate ==
    /\ request = NoRequest
    /\ ops < MaxRequestOps
    /\ \E name \in SandboxNames :
       \E mountFlags \in SeqsUpTo(MountCatalog, 1) :
       \E volumeFlags \in SeqsUpTo(VolumeFlagChoices, 1) :
       \E git \in BOOLEAN :
       \E yes \in BOOLEAN :
       \E stdin \in (IF yes THEN {<<>>} ELSE Stdins) :
           request' = [op |-> "create", phase |-> "pending", name |-> name,
                       mountFlags |-> mountFlags, volumeFlags |-> volumeFlags,
                       git |-> git, yes |-> yes, stdin |-> stdin]
    /\ UNCHANGED <<world, ops, last, volumesFile>>

SubmitPromptDelete ==
    /\ request = NoRequest
    /\ ops < MaxRequestOps
    /\ \E name \in SandboxNames :
       \E policy \in {"keep", "auto"} :
       \E stdin \in (IF policy = "auto" THEN Stdins ELSE {<<>>}) :
       \E absentOk \in (IF name \in containers THEN {FALSE} ELSE BOOLEAN) :
       \E faults \in SubsetsUpTo(DeleteFaults(name, policy), 1) :
           request' = [op |-> "delete", phase |-> "pending", name |-> name,
                       policy |-> policy, stdin |-> stdin,
                       absentOk |-> absentOk, faults |-> faults]
    /\ UNCHANGED <<world, ops, last, volumesFile>>

\* The handler reads standard input only where it prompts; what the prompt
\* would return is worked out here and used by Create if it prompts.
RunPromptCreate ==
    /\ Pending("create")
    /\ \E p \in {promptForConfirmation(request.stdin)} :
           Create(request.name, request.mountFlags, request.volumeFlags, request.git, "",
                  IF request.yes THEN "--yes" ELSE IF p.err THEN "eof"
                  ELSE IF p.value THEN "y" ELSE "n",
                  NoFault, StrictClock(Len(request.mountFlags) + 1))
    /\ ops' = ops + 1
    /\ request' = [request EXCEPT !.phase = "done"]
    /\ UNCHANGED volumesFile

RunPromptDelete ==
    /\ Pending("delete")
    /\ \E p \in {promptForConfirmation(request.stdin)} :
           Delete(request.name, request.policy, p.value, request.absentOk,
                  request.faults \cup (IF p.err THEN {<<"promptForConfirmation", NoName>>}
                                       ELSE {}))
    /\ ops' = ops + 1
    /\ request' = [request EXCEPT !.phase = "done"]
    /\ UNCHANGED <<volumesFile, tempDirs>>

NextPrompt ==
    SubmitPromptCreate \/ SubmitPromptDelete \/ RunPromptCreate \/ RunPromptDelete \/ Return

SpecPrompt == Init /\ [][NextPrompt]_vars

(***************************************************************************)
(* SpecRemotes: one call of syncGitRemotes on a source repository and a    *)
(* prepared copy, each with remotes drawn from the forms of URL that git   *)
(* takes.  A remote map is a function from remote names to URLs, a URL a   *)
(* sequence of characters; `request` holds the call and what it left.      *)
(***************************************************************************)
\* The forms of URL, by what they are: hosts are h, users u, paths p.
RemoteURLs ==
    [http |-> <<"h", "t", "t", "p", ":", "/", "/", "h", "/", "p">>,
     https |-> <<"h", "t", "t", "p", "s", ":", "/", "/", "h", "/", "p">>,
     ssh |-> <<"s", "s", "h", ":", "/", "/", "u", "@", "h", "/", "p">>,
     scp |-> <<"u", "@", "h", ":", "p">>,
     nouser |-> <<"@", "h", ":", "p">>,
     nohost |-> <<"u", "@", ":", "p">>,
     git |-> <<"g", "i", "t", ":", "/", "/", "h", "/", "p">>,
     file |-> <<"f", "i", "l", "e", ":", "/", "/", "/", "p">>,
     absolute |-> <<"/", "p">>,
     relative |-> <<".", ".", "/", "p">>,
     atpath |-> <<"/", "p", "/", "u", "@", "h", ":", "p">>]

isNetworkRemoteURL(url) ==
    LET HasPrefix(prefix) ==
            Len(url) >= Len(prefix) /\ SubSeq(url, 1, Len(prefix)) = prefix
        \* strings.Index: the place of the first c counted from 0, -1 for none
        Index(c) ==
            LET at == { i \in DOMAIN url : url[i] = c }
            IN  IF at = {} THEN -1 ELSE (CHOOSE i \in at : \A j \in at : i <= j) - 1
    IN  IF \/ HasPrefix(<<"h", "t", "t", "p", ":", "/", "/">>)
           \/ HasPrefix(<<"h", "t", "t", "p", "s", ":", "/", "/">>)
           \/ HasPrefix(<<"s", "s", "h", ":", "/", "/">>)
        THEN TRUE
        ELSE IF HasPrefix(<<"f", "i", "l", "e", ":", "/", "/">>) THEN FALSE
        ELSE Index("@") > 0 /\ Index(":") > Index("@") + 1

\* sort.Strings over the remote names of the specification.
sortedRemoteNames(m) ==
    SelectSeq(<<"fork", "origin", "other">>, LAMBDA n : n \in DOMAIN m)

\* [err, remotes]: the remotes of the prepared copy after the call.  A
\* fault is the git command that fails: <<"remote", repo>> for the listing
\* of a repository, <<"remote remove", name>>, <<"remote add", name>>.
syncGitRemotes(srcRemotes, dstRemotes, fault) ==
    LET filtered == [n \in { m \in DOMAIN srcRemotes : isNetworkRemoteURL(srcRemotes[m]) }
                        |-> srcRemotes[n]]
        Until(names, n) ==
            { names[i] : i \in { j \in DOMAIN names : \A k \in 1..j : names[k] # n } }
        removed == Until(sortedRemoteNames(dstRemotes), fault[2])
        added == Until(sortedRemoteNames(filtered), fault[2])
    IN  IF fault \in {<<"remote", "src">>, <<"remote", "dst">>}
        THEN [err |-> TRUE, remotes |-> dstRemotes]
        ELSE IF fault[1] = "remote remove" /\ fault[2] \in DOMAIN dstRemotes
        THEN [err |-> TRUE,
              remotes |-> [n \in DOMAIN dstRemotes \ removed |-> dstRemotes[n]]]
        ELSE IF fault[1] = "remote add" /\ fault[2] \in DOMAIN filtered
        THEN [err |-> TRUE, remotes |-> [n \in added |-> filtered[n]]]
        ELSE [err |-> FALSE, remotes |-> filtered]

\* The remote maps over the given names.
RemoteMaps(names) ==
    UNION { [S -> { RemoteURLs[k] : k \in DOMAIN RemoteURLs }] :
              S \in { T \in SUBSET names : Cardinality(T) <= MaxRemotes } }

\* syncGitRemotes(src, dst) on a prepared copy with any remotes.
SyncRemotes ==
    /\ ops < MaxSyncOps
    /\ ops' = ops + 1
    /\ \E src \in RemoteMaps({"origin", "fork"}) :
       \E dst \in { m \in RemoteMaps({"origin", "other"}) :
                      \A n \in DOMAIN m : m[n] \in {RemoteURLs.absolute, RemoteURLs.ssh} } :
       \E fault \in {<<"none", "">>, <<"remote", "src">>, <<"remote", "dst">>}
                    \cup { <<"remote remove", n>> : n \in DOMAIN dst }
                    \cup { <<"remote add", n>> : n \in DOMAIN src } :
       \E r \in {syncGitRemotes(src, dst, fault)} :
           request' = [op |-> "syncGitRemotes", src |-> src, dst |-> dst,
                       fault |-> fault, err |-> r.err, remotes |-> r.remotes]
    /\ UNCHANGED <<world, last, volumesFile>>

\* prepareGitMount: the copy is a clone, whose one remote is the source
\* repository, or with --no-clean a copy of the source with its remotes.
SyncPrepared ==
    /\ ops < MaxSyncOps
    /\ ops' = ops + 1
    /\ \E src \in RemoteMaps({"origin", "fork"}) :
       \E dst \in {src, [n \in {"origin"} |-> RemoteURLs.absolute]} :
       \E r \in {syncGitRemotes(src, dst, <<"none", "">>)} :
           request' = [op |-> "prepareGitMount", src |-> src, dst |-> dst,
                       fault |-> <<"none", "">>, err |-> r.err, remotes |-> r.remotes]
    /\ UNCHANGED <<world, last, volumesFile>>

NextRemotes == SyncRemotes \/ SyncPrepared

SpecRemotes == Init /\ [][NextRemotes]_vars

(***************************************************************************)
(* SpecMaterialize: a sandbox create (those of SpecGit) and materialize    *)
(* commands, each with its command line on record.  materialize resolves   *)
(* its rwcopy mounts into runtime volumes and copy directories of its own, *)
(* runs the container and copies the output; any of its calls may fail,    *)
(* and so may the removals it makes when it returns.  The report of a      *)
(* materialize has a line for every store it created and for every removal *)
(* it tried.                                                               *)
(***************************************************************************)
\* One mount of materialize.  e carries the runtime sets as the command has
\* changed them, the two lists of the deferred cleanup, the lines of the
\* report and the first error.
ResolveEphemeralMount(e, m, i, fault) ==
    IF m.Mode # "rwcopy" THEN [e EXCEPT !.runtimeMounts = Append(@, m)]
    ELSE IF HostKind(m.Source) = "missing" \/ fault = <<"os.Stat", i>>
    THEN [e EXCEPT !.err = "os.Stat"]
    ELSE IF HostKind(m.Source) = "dir"
    THEN LET volumeName == generateRWCopyVolumeName("materialize", m.Target,
                                                    e.clock + e.elapsed[i])
             e1 == [e EXCEPT !.clock = @ + e.elapsed[i]]
             e2 == [e1 EXCEPT !.dockerVolumes = @ \cup {volumeName},
                              !.ephemeralVolumes = Append(@, volumeName),
                              !.lines = Append(@, Line("volume", volumeName, "created"))]
         IN  IF fault = <<"CreateDockerVolume", i>>
             THEN [e1 EXCEPT !.err = "CreateDockerVolume"]
             ELSE IF fault = <<"CopyHostDirToVolume", i>>
             THEN [e2 EXCEPT !.err = "CopyHostDirToVolume"]
             ELSE [e2 EXCEPT !.runtimeMounts = Append(@,
                                 [Type |-> "volume", Source |-> NoPath,
                                  Volume |-> volumeName, Target |-> m.Target,
                                  Mode |-> "rw", SnapshotFrom |-> NoPath])]
    ELSE LET \* os.MkdirTemp makes a directory that was not there
             k == CHOOSE n \in 1..(Cardinality(e.tempDirs) + 1) :
                      /\ <<"tmp", "amika-materialize-rwcopy-", n>> \notin e.tempDirs
                      /\ \A j \in 1..(n - 1) :
                             <<"tmp", "amika-materialize-rwcopy-", j>> \in e.tempDirs
             copyDir == <<"tmp", "amika-materialize-rwcopy-", k>>
             e2 == [e EXCEPT !.tempDirs = @ \cup {copyDir},
                             !.ephemeralFileDirs = Append(@, copyDir),
                             !.lines = Append(@, Line("copy-dir", copyDir, "created"))]
         IN  IF fault = <<"os.MkdirTemp", i>>
             THEN [e EXCEPT !.err = "os.MkdirTemp"]
             ELSE IF fault = <<"copyFile", i>>
             THEN [e2 EXCEPT !.err = "copyFile"]
             ELSE [e2 EXCEPT !.runtimeMounts = Append(@,
                                 [Type |-> "bind", Source |-> copyDir \o <<Base(m.Source)>>,
                                  Volume |-> NoName, Target |-> m.Target,
                                  Mode |-> "rw", SnapshotFrom |-> NoPath])]

RECURSIVE ResolveEphemeralMounts(_, _, _, _)
ResolveEphemeralMounts(e, mounts, i, fault) ==
    IF i > Len(mounts) \/ e.err # "" THEN e
    ELSE CHOOSE r \in { ResolveEphemeralMounts(u, mounts, i + 1, fault) :
                            u \in {ResolveEphemeralMount(e, mounts[i], i, fault)} } : TRUE

\* Variant of ephemeralCleanup that removes the volumes only.
ephemeralCleanupVolumesOnly(e, removal) ==
    LET tried(kind, names) ==
            [i \in DOMAIN names |->
                Line(kind, names[i], IF removal = "ok" THEN "removed" ELSE "remove-failed")]
    IN  [e EXCEPT !.dockerVolumes = IF removal = "ok" THEN @ \ Range(e.ephemeralVolumes)
                                    ELSE @,
                  !.lines = @ \o tried("volume", e.ephemeralVolumes)]

\* The deferred function of the handler: docker volume rm of every volume
\* and os.RemoveAll of every copy directory on the two lists, errors
\* dropped.  removal: whether these calls do what they are asked ("ok") or
\* fail.
ephemeralCleanup(e, removal) ==
    LET tried(kind, names) ==
            [i \in DOMAIN names |->
                Line(kind, names[i], IF removal = "ok" THEN "removed" ELSE "remove-failed")]
    IN  [e EXCEPT !.dockerVolumes = IF removal = "ok" THEN @ \ Range(e.ephemeralVolumes)
                                    ELSE @,
                  !.tempDirs = IF removal = "ok" THEN @ \ Range(e.ephemeralFileDirs)
                               ELSE @,
                  !.lines = @ \o tried("volume", e.ephemeralVolumes)
                              \o tried("copy-dir", e.ephemeralFileDirs)]

SubmitMaterialize ==
    /\ request = NoRequest
    /\ ops < MaxGitOps
    /\ \E mountFlags \in SeqsUpTo(MountsCatalog, MaxMaterializeMounts) :
       \E destdir \in BOOLEAN :
       \E removal \in {"ok", "fails"} :
       \E fault \in { NoFault, <<"os.MkdirTemp", 0>>, <<"docker run", 0>>, <<"rsync", 0>> }
                    \cup { <<c, i>> : c \in {"os.Stat", "CreateDockerVolume",
                                             "CopyHostDirToVolume", "os.MkdirTemp", "copyFile"},
                                      i \in 1..(Len(mountFlags) + 1) } :
           request' = [op |-> "materialize", phase |-> "pending", mountFlags |-> mountFlags,
                       destdir |-> destdir, removal |-> removal, fault |-> fault]
    /\ UNCHANGED <<world, ops, last, volumesFile>>

\* topMaterializeCmd.RunE.  The directory of the output is made after the
\* mounts are resolved and removed, by its own defer, when the handler
\* returns; the container is run with --rm.
RunMaterialize ==
    /\ Pending("materialize")
    /\ LET pm == parseMountFlags(request.mountFlags)
           mounts == pm.mounts \o RWCopyMounts(AllMounts(HomeDir))
           e0 == [dockerVolumes |-> dockerVolumes, tempDirs |-> tempDirs, clock |-> clock,
                  runtimeMounts |-> <<>>, ephemeralVolumes |-> <<>>,
                  ephemeralFileDirs |-> <<>>, lines |-> <<>>, err |-> "",
                  elapsed |-> StrictClock(Len(mounts))]
           after(e) == IF e.err # "" THEN e
                       ELSE IF request.fault \in {<<"os.MkdirTemp", 0>>, <<"docker run", 0>>,
                                                  <<"rsync", 0>>}
                       THEN [e EXCEPT !.err = request.fault[1]]
                       ELSE e
       IN  IF ~request.destdir \/ pm.err # ""
           THEN /\ last' = Report("materialize", "", "input-error")
                /\ UNCHANGED world
           ELSE \E e1 \in {ResolveEphemeralMounts(e0, mounts, 1, request.fault)} :
                \E e2 \in {ephemeralCleanup(after(e1), request.removal)} :
                /\ dockerVolumes' = e2.dockerVolumes
                /\ tempDirs' = e2.tempDirs
                /\ clock' = e2.clock
                /\ last' = [Report("materialize", "materialize",
                                   IF e2.err = "" THEN "ok" ELSE e2.err)
                            EXCEPT !.statuses = e2.lines]
                /\ UNCHANGED <<sandboxStore, volumeStore, fileMountStore, containers,
                               fileMountDirs>>
    /\ ops' = ops + 1
    /\ request' = [request EXCEPT !.phase = "done"]
    /\ UNCHANGED volumesFile

NextMaterialize == SubmitGit \/ RunGit \/ SubmitMaterialize \/ RunMaterialize \/ ReturnGit

SpecMaterialize == Init /\ [][NextMaterialize]_vars

(***************************************************************************)
(* SpecConcurrent: two invocations of `sandbox create`, one per sandbox    *)
(* name, each making one store call while the other makes its own.  A call *)
(* is the steps of its code: AddSandboxRef gets the record (a read of the  *)
(* whole file), then Save reads the whole file and rewrites it.  Nothing   *)
(* in the code holds the file between the steps of a call, so the steps of *)
(* the two calls fall in any order; a read-all and a rewrite-all are each  *)
(* taken as one step.  `request` holds, per invocation, the call, the      *)
(* position in it, what it read, the error it returned and whether the     *)
(* other invocation was inside its call when this one began.               *)
(***************************************************************************)
Invocations == SandboxNames

InitConcurrent ==
    /\ sandboxStore = <<>>
    /\ volumeStore = <<>>
    /\ fileMountStore = <<>>
    /\ containers = {}
    /\ dockerVolumes = {}
    /\ fileMountDirs = {}
    /\ tempDirs = {}
    /\ clock = 0
    /\ ops = 0
    /\ last = Report("init", "", "ok")
    /\ request = [p \in Invocations |-> [pc |-> "idle"]]
    /\ volumesFile \in { file \in StoreFiles : \A i \in DOMAIN file : file[i].unknown = {} }

\* The store calls of a create of sandbox p: the record of a volume it
\* minted, its reference on a volume named by --volume, its own record.
ConcurrentCalls(p) ==
    { [pc |-> "readAll", op |-> "Save", store |-> "volumes", name |-> v, sandbox |-> p,
       info |-> [Name |-> v, CreatedBy |-> "rwcopy", SourcePath |-> SrcTree,
                 SandboxRefs |-> <<p>>],
       read |-> <<>>, err |-> FALSE, overlaps |-> FALSE] : v \in StoreVolumes }
    \cup { [pc |-> "Get", op |-> "AddSandboxRef", store |-> "volumes", name |-> v,
            sandbox |-> p, info |-> NoRecord, read |-> <<>>, err |-> FALSE,
            overlaps |-> FALSE] :
           v \in StoreVolumes }
    \cup { [pc |-> "readAll", op |-> "Save", store |-> "sandboxes", name |-> p,
            sandbox |-> p,
            info |-> [Name |-> p, Provider |-> "docker", Mounts |-> <<>>],
            read |-> <<>>, err |-> FALSE, overlaps |-> FALSE] }

\* The invocation reaches its store call.
ConcurrentCall ==
    \E p \in Invocations : \E call \in ConcurrentCalls(p) :
        /\ request[p].pc = "idle"
        /\ request' = [request EXCEPT ![p] =
                          [call EXCEPT !.overlaps =
                              \E q \in Invocations \ {p} :
                                  request[q].pc \in {"Get", "readAll", "writeAll"}]]
        /\ ops' = ops + 1
        /\ UNCHANGED <<world, last, volumesFile>>

\* s.Get of AddSandboxRef: the record as the file has it now, with the
\* reference appended when it is not there; the error return when no
\* record has the name.
ConcurrentGet ==
    \E p \in Invocations :
        /\ request[p].pc = "Get"
        /\ LET volumes == readAll(volumesFile)
               info == Get(volumes, request[p].name)
           IN  request' =
                 [request EXCEPT ![p] =
                    IF ~Has(volumes, request[p].name)
                    THEN [@ EXCEPT !.pc = "done", !.err = TRUE]
                    ELSE [@ EXCEPT !.pc = "readAll",
                                   !.info = IF Contains(info.SandboxRefs, request[p].sandbox)
                                            THEN info
                                            ELSE [info EXCEPT !.SandboxRefs =
                                                      Append(@, request[p].sandbox)]]]
        /\ UNCHANGED <<world, ops, last, volumesFile>>

\* s.readAll of Save: the records of the file, or the error return.
ConcurrentReadAll ==
    \E p \in Invocations : \E fails \in BOOLEAN :
        /\ request[p].pc = "readAll"
        /\ request' =
             [request EXCEPT ![p] =
                IF fails THEN [@ EXCEPT !.pc = "done", !.err = TRUE]
                ELSE [@ EXCEPT !.pc = "writeAll",
                               !.read = IF request[p].store = "volumes"
                                        THEN readAll(volumesFile)
                                        ELSE sandboxStore]]
        /\ UNCHANGED <<world, ops, last, volumesFile>>

\* s.writeAll of Save: the records read, with the record of the call
\* replaced or appended, written over the file.
ConcurrentWriteAll ==
    \E p \in Invocations : \E kind \in {"ok", "os.Create"} :
        LET written == Save(request[p].read, request[p].info)
            r == writeAll(volumesFile, written, Run(kind, 0, FALSE))
        IN  /\ request[p].pc = "writeAll"
            /\ IF request[p].store = "volumes"
               THEN /\ volumesFile' = r.file
                    /\ sandboxStore' = sandboxStore
               ELSE /\ sandboxStore' = IF kind = "ok" THEN written ELSE sandboxStore
                    /\ volumesFile' = volumesFile
            /\ request' = [request EXCEPT ![p] = [@ EXCEPT !.pc = "done",
                                                           !.err = (kind # "ok")]]
            /\ UNCHANGED <<volumeStore, fileMountStore, containers, dockerVolumes,
                           fileMountDirs, tempDirs, clock, ops, last>>

NextConcurrent == ConcurrentCall \/ ConcurrentGet \/ ConcurrentReadAll \/ ConcurrentWriteAll

SpecConcurrent == InitConcurrent /\ [][NextConcurrent]_vars

(***************************************************************************)
(* Properties.  `last` is the report of the command that led to the        *)
(* current state, so in an action formula last' tells which command the    *)
(* step is and how it ended.                                               *)
(***************************************************************************)
RolledBackCreate == last'.op = "create" /\ last'.outcome = "rolled-back"

C2_RollbackKeepsPriorRefs ==
    [][ RolledBackCreate =>
            \A n \in Names(volumeStore) :
                /\ Has(volumeStore', n)
                /\ Get(volumeStore', n).SandboxRefs = Get(volumeStore, n).SandboxRefs ]_vars

\* The backing stores a sandbox record's bindings name.
BoundVolumes(info) ==
    { info.Mounts[i].Volume : i \in { k \in DOMAIN info.Mounts : info.Mounts[k].Type = "volume" } }

BoundCopyPaths(info) ==
    { info.Mounts[i].Source : i \in { k \in DOMAIN info.Mounts :
                                        /\ info.Mounts[k].Type = "bind"
                                        /\ info.Mounts[k].SnapshotFrom # NoPath } }

CreateThenDeleteKeep ==
    /\ last.op = "create" /\ last.outcome = "ok"
    /\ last'.op = "delete" /\ last'.name = last.name
    /\ last'.policy = "keep" /\ last'.outcome = "ok"

(* C3: after a successful sandbox create of s immediately followed by a    *)
(* sandbox delete of s with --keep-volumes, every backing store the create *)
(* created or attached still exists, physically and as a record, and no    *)
(* such record's reference set contains s.                                 *)
C3_ReferenceBalance ==
    [][ CreateThenDeleteKeep =>
            LET info == Get(sandboxStore, last.name)
            IN  /\ \A v \in BoundVolumes(info) :
                       /\ Has(volumeStore', v)
                       /\ v \in dockerVolumes'
                       /\ last.name \notin Refs(volumeStore', v)
                /\ \A p \in BoundCopyPaths(info) :
                       /\ Dir(p) \in fileMountDirs'
                       /\ \E i \in DOMAIN fileMountStore' :
                              /\ fileMountStore'[i].CopyPath = p
                              /\ last.name \notin Range(fileMountStore'[i].SandboxRefs) ]_vars

\* A create with a directory copy and a file copy, then delete --keep-volumes.
C3_Witness ==
    /\ ops = 2 /\ clock = 2
    /\ last.op = "delete" /\ last.policy = "keep" /\ last.outcome = "ok"
    /\ Len(last.statuses) = 2
    /\ Len(volumeStore) = 1 /\ Len(fileMountStore) = 1
    /\ sandboxStore = <<>>

ExclusiveNames(store, sandboxName) == Names(Exclusive(store, sandboxName))

ReferencedNames(store, sandboxName) == Names(VolumesForSandbox(store, sandboxName))

CopyDir(store, n) == Dir(Get(store, n).CopyPath)

AutoDeleteWithExclusive ==
    /\ last'.op = "delete" /\ last'.policy = "auto" /\ last'.outcome = "ok"
    /\ ops' # ops
    /\ ExclusiveNames(volumeStore, last'.name)
           \cup ExclusiveNames(fileMountStore, last'.name) # {}

(* C4: sandbox delete of s with neither flag, when some backing store has  *)
(* s as its only reference: on a confirmed prompt every store referenced   *)
(* by s alone is physically deleted and its record removed; on a declined  *)
(* prompt every store referenced by s keeps its physical store and its     *)
(* record and loses exactly the reference to s.                            *)
C4_ExclusiveDeleteDefault ==
    [][ AutoDeleteWithExclusive =>
            LET s == last'.name
            IN  IF last'.confirmed
                THEN /\ \A n \in ExclusiveNames(volumeStore, s) :
                            ~Has(volumeStore', n) /\ n \notin dockerVolumes'
                     /\ \A n \in ExclusiveNames(fileMountStore, s) :
                            /\ ~Has(fileMountStore', n)
                            /\ CopyDir(fileMountStore, n) \notin fileMountDirs'
                ELSE /\ dockerVolumes' = dockerVolumes
                     /\ fileMountDirs' = fileMountDirs
                     /\ \A n \in ReferencedNames(volumeStore, s) :
                            /\ Has(volumeStore', n)
                            /\ Refs(volumeStore', n) = Refs(volumeStore, n) \ {s}
                     /\ \A n \in ReferencedNames(fileMountStore, s) :
                            /\ Has(fileMountStore', n)
                            /\ Refs(fileMountStore', n) = Refs(fileMountStore, n) \ {s} ]_vars

\* A confirmed auto delete removed a directory volume and a file mount.
C4_Witness ==
    /\ last.op = "delete" /\ last.policy = "auto" /\ last.outcome = "ok"
    /\ last.confirmed
    /\ \E i \in DOMAIN last.statuses :
           last.statuses[i].kind = "volume" /\ last.statuses[i].status = "deleted"
    /\ \E i \in DOMAIN last.statuses :
           last.statuses[i].kind = "file-mount" /\ last.statuses[i].status = "deleted"

SharedKept(kind, store, storeAfter, s) ==
    \A n \in Names(store) :
        Refs(store, n) \ {s} # {} =>
            /\ Has(storeAfter, n)
            /\ Refs(storeAfter, n) \ {s} = Refs(store, n) \ {s}
            /\ last'.outcome = "ok" => s \notin Refs(storeAfter, n)
            /\ (last'.outcome = "ok" /\ last'.deleteVolumes /\ s \in Refs(store, n)) =>
                   Line(kind, n, "preserved (still referenced)") \in Range(last'.statuses)

(* C5: sandbox delete of s, whatever its policy and whichever of its calls *)
(* fail, never deletes a backing store whose reference set is non-empty    *)
(* once s is taken out: such a store keeps its physical store and its      *)
(* record, loses at most the reference to s, and when volumes are being    *)
(* deleted it is reported as `preserved (still referenced)`.               *)
C5_SharedStoreSurvivesDelete ==
    [][ (last'.op = "delete" /\ last'.name # "" /\ ops' # ops) =>
            LET s == last'.name
            IN  /\ SharedKept("volume", volumeStore, volumeStore', s)
                /\ SharedKept("file-mount", fileMountStore, fileMountStore', s)
                /\ \A n \in Names(volumeStore) :
                       (Refs(volumeStore, n) \ {s} # {} /\ n \in dockerVolumes)
                           => n \in dockerVolumes'
                /\ \A n \in Names(fileMountStore) :
                       (Refs(fileMountStore, n) \ {s} # {}
                            /\ CopyDir(fileMountStore, n) \in fileMountDirs)
                           => CopyDir(fileMountStore, n) \in fileMountDirs' ]_vars

\* delete --delete-volumes of one of two sandboxes sharing a volume.
C5_Witness ==
    /\ last.op = "delete" /\ last.policy = "delete" /\ last.outcome = "ok"
    /\ \E n \in Names(volumeStore) :
           /\ Line("volume", n, "preserved (still referenced)") \in Range(last.statuses)
           /\ Refs(volumeStore, n) # {}
           /\ last.name \notin Refs(volumeStore, n)
           /\ n \in dockerVolumes

VolumeDeleteOf(n) ==
    /\ last'.op = "volume-delete" /\ last'.volume = n /\ ops' # ops

(* C6: volume delete of a directory-volume or file-mount record whose      *)
(* reference set is non-empty fails with the in-use error unless --force   *)
(* is given, and the refusal changes nothing (records, reference sets and  *)
(* physical stores are as before); with --force, when its calls succeed,   *)
(* the physical store is deleted and the record removed.                   *)
C6_InUseProtection ==
    [][ /\ \A n \in Names(volumeStore) :
              (VolumeDeleteOf(n) /\ IsInUse(volumeStore, n)) =>
                  IF ~last'.force
                  THEN /\ last'.outcome = "in-use"
                       /\ UNCHANGED <<sandboxStore, volumeStore, fileMountStore,
                                      containers, dockerVolumes, fileMountDirs>>
                  ELSE last'.outcome = "ok" =>
                           ~Has(volumeStore', n) /\ n \notin dockerVolumes'
        /\ \A n \in Names(fileMountStore) \ Names(volumeStore) :
              (VolumeDeleteOf(n) /\ IsInUse(fileMountStore, n)) =>
                  IF ~last'.force
                  THEN /\ last'.outcome = "in-use"
                       /\ UNCHANGED <<sandboxStore, volumeStore, fileMountStore,
                                      containers, dockerVolumes, fileMountDirs>>
                  ELSE last'.outcome = "ok" =>
                           /\ ~Has(fileMountStore', n)
                           /\ CopyDir(fileMountStore, n) \notin fileMountDirs' ]_vars

\* A volume delete without --force was refused on a referenced volume.
C6_Witness ==
    /\ last.op = "volume-delete" /\ last.outcome = "in-use" /\ ~last.force
    /\ Has(volumeStore, last.volume)
    /\ IsInUse(volumeStore, last.volume)
    /\ last.volume \in dockerVolumes

PersistFailedCreate == last'.op = "create" /\ last'.outcome = "persist-failed"

(* C7: when the save of the sandbox record fails after the container was   *)
(* created, create runs no rollback: the container exists, every backing   *)
(* store the call made is in place with a record that references the new   *)
(* name, earlier records are kept, no sandbox record exists, and the next  *)
(* create of the same name does not succeed.                               *)
C7_PersistFailureLeavesContainer ==
    [][ /\ PersistFailedCreate =>
              LET s == last'.name
                  newV == Names(volumeStore') \ Names(volumeStore)
                  newF == Names(fileMountStore') \ Names(fileMountStore)
              IN  /\ s \in containers'
                  /\ ~Has(sandboxStore', s)
                  /\ Names(volumeStore) \subseteq Names(volumeStore')
                  /\ Names(fileMountStore) \subseteq Names(fileMountStore')
                  /\ Cardinality(newV) + Cardinality(newF) = clock' - clock
                  /\ \A n \in newV : n \in dockerVolumes' /\ s \in Refs(volumeStore', n)
                  /\ \A n \in newF : /\ CopyDir(fileMountStore', n) \in fileMountDirs'
                                      /\ s \in Refs(fileMountStore', n)
                  /\ \A n \in Names(volumeStore) :
                         Refs(volumeStore, n) \subseteq Refs(volumeStore', n)
        /\ ( /\ last.op = "create" /\ last.outcome = "persist-failed"
             /\ last'.op = "create" /\ last'.name = last.name /\ ops' # ops )
              => /\ last'.outcome = "rolled-back"
                 /\ ~Has(sandboxStore', last.name) ]_vars

\* A persist failure left a container and a backing store, and the create
\* of the same name that followed was turned down.
C7_Witness ==
    /\ ops = 2 /\ clock >= 2
    /\ last.op = "create" /\ last.outcome = "rolled-back"
    /\ last.name \in containers
    /\ ~Has(sandboxStore, last.name)
    /\ \E n \in Names(volumeStore) : n \in dockerVolumes

\* The bindings of a sandbox record that name no record of a backing store.
DanglingOf(info) ==
    { v \in BoundVolumes(info) : ~Has(volumeStore, v) }
    \cup { p \in BoundCopyPaths(info) :
              \A i \in DOMAIN fileMountStore : fileMountStore[i].CopyPath # p }

(* C8: in every reachable state every volume binding of every sandbox      *)
(* record names a record of the directory-volume store and every           *)
(* rwcopy-file bind binding points at the copy path of a record of the     *)
(* file-mount store.                                                       *)
C8_BindingsResolve ==
    \A i \in DOMAIN sandboxStore : DanglingOf(sandboxStore[i]) = {}

\* The same for the sandbox records whose container exists.
LiveBindingsResolve ==
    \A i \in DOMAIN sandboxStore :
        sandboxStore[i].Name \in containers => DanglingOf(sandboxStore[i]) = {}

ForcedDeleteOfInUse ==
    /\ last'.op = "volume-delete" /\ last'.force /\ ops' # ops
    /\ LET n == last'.volume
       IN  IF Has(volumeStore, n) THEN IsInUse(volumeStore, n)
           ELSE Has(fileMountStore, n) /\ IsInUse(fileMountStore, n)

(* C8 (amended): every step other than a volume delete --force of a store  *)
(* whose reference set is non-empty keeps this true: every volume binding  *)
(* and every rwcopy-file bind binding of every sandbox record whose        *)
(* container exists names an existing backing-store record.                *)
C8_LiveBindingsResolveUnlessForced ==
    [][ (LiveBindingsResolve /\ ~ForcedDeleteOfInUse) => LiveBindingsResolve' ]_vars

\* Two running sandboxes share a volume that one of them made; a third
\* command has run and every binding still resolves.
C8_Witness ==
    /\ ops = 3
    /\ Len(sandboxStore) = 2
    /\ \A i \in DOMAIN sandboxStore :
           /\ sandboxStore[i].Name \in containers
           /\ BoundVolumes(sandboxStore[i]) # {}
    /\ LiveBindingsResolve

Orphans == { n \in Names(sandboxStore) : n \notin containers }

Unrecorded == containers \ Names(sandboxStore)

(* C10: a container without a sandbox record comes about only by a sandbox *)
(* create whose save of the sandbox record failed; no other failure of a   *)
(* create or delete step and no successful command adds such a container.  *)
C10_OnlyPersistFailureOrphansContainer ==
    [][ \/ Unrecorded' \subseteq Unrecorded
        \/ /\ PersistFailedCreate
           /\ Unrecorded' \ Unrecorded = {last'.name} ]_vars

\* A persist failure left a container without a record, and a later delete
\* of the name found no record.
C10_Witness ==
    /\ Unrecorded # {}
    /\ last.op = "delete" /\ last.outcome = "not-found"

\* Steps of SpecRequests that run a command: request' is its command line.
Ran(op) == request'.op = op /\ request'.phase = "done" /\ ops' # ops

Done(op) == request.op = op /\ request.phase = "done"

Targets(flags) == [i \in DOMAIN flags |-> flags[i].Target]

Distinct(seq) == \A i, j \in DOMAIN seq : i < j => seq[i] # seq[j]

DeclaredTargets(r) == Targets(r.mountFlags) \o Targets(r.volumeFlags)

WellFormedTargets(r) ==
    /\ Distinct(DeclaredTargets(r))
    /\ \A i \in DOMAIN DeclaredTargets(r) : DeclaredTargets(r)[i][1] = "/"

(* C11: a sandbox create whose --mount and --volume targets are not        *)
(* pairwise distinct (within --mount, within --volume or across the two)   *)
(* or not all absolute changes nothing: no backing store, reference,       *)
(* container or record is created or written.  It ends as an input error;  *)
(* only when the preparation of the --git repository fails, which comes    *)
(* before the comparison of the two flag forms, can it end as that failure *)
(* instead.                                                                *)
C11_DeclaredTargetsDistinctAndAbsolute ==
    [][ (Ran("create") /\ ~WellFormedTargets(request'))
            => /\ UNCHANGED world
               /\ last'.outcome \in {"input-error", "git-failed"}
               /\ request'.fault = NoFault => last'.outcome = "input-error" ]_vars

\* The second create, with a tracked volume at hand, names one target in
\* --mount and in --volume and is refused.
C11_Witness ==
    /\ ops = 2 /\ volumeStore # <<>>
    /\ Done("create")
    /\ Distinct(Targets(request.mountFlags)) /\ Distinct(Targets(request.volumeFlags))
    /\ \E i \in DOMAIN request.mountFlags : \E j \in DOMAIN request.volumeFlags :
           /\ request.mountFlags[i].Target = request.volumeFlags[j].Target
           /\ Has(volumeStore, request.volumeFlags[j].Volume)
    /\ last.op = "create" /\ last.outcome = "input-error"

\* The targets of the mounts a create injects after parsing.
InjectedTargets(r) ==
    (IF r.git THEN {GitTarget} ELSE {})
    \cup (IF IsAgentPreset(r.preset)
          THEN Range(Targets(RWCopyMounts(AllMounts(HomeDir)))) ELSE {})

(* C12: every sandbox record that create persists has pairwise distinct    *)
(* container targets over all its bindings, and a create whose --mount or  *)
(* --volume names the target of an injected mount (agent configuration of  *)
(* a preset, --git) ends as a duplicate-target input error with nothing    *)
(* changed.                                                                *)
C12_EffectiveTargetsDistinct ==
    [][ Ran("create") =>
            /\ \A i \in DOMAIN sandboxStore' : Distinct(Targets(sandboxStore'[i].Mounts))
            /\ (/\ request'.fault = NoFault
                /\ Range(DeclaredTargets(request')) \cap InjectedTargets(request') # {})
               => (last'.outcome = "input-error" /\ UNCHANGED world) ]_vars

(* C13: a sandbox create with a --name that the sandbox store already has  *)
(* changes nothing: no runtime volume or copy directory is created, no     *)
(* reference added, no container created, and the three record sets stay   *)
(* as they were.  Unless its flags are refused first, it ends as           *)
(* "already exists".                                                       *)
C13_ExistingNameRejected ==
    [][ (Ran("create") /\ Has(sandboxStore, request'.name))
            => /\ UNCHANGED world
               /\ last'.outcome \in {"exists", "input-error", "git-failed"}
               /\ (WellFormedTargets(request') /\ request'.fault = NoFault
                   /\ Range(DeclaredTargets(request')) \cap InjectedTargets(request') = {})
                  => last'.outcome = "exists" ]_vars

\* The name of the first sandbox is given again, with mounts to resolve.
C13_Witness ==
    /\ Done("create") /\ ops = 2
    /\ Has(sandboxStore, request.name)
    /\ request.mountFlags # <<>>
    /\ last.op = "create" /\ last.outcome = "exists"

\* docker rm -f of the sandbox of request r fails in the current state.
ContainerRemovalFails(r) ==
    \/ <<"RemoveDockerSandbox", NoName>> \in r.faults
    \/ r.name \notin containers /\ ~r.absentOk

ResolveFaulted(r) ==
    r.faults \cap { <<"resolve.VolumesForSandbox", NoName>>,
                    <<"resolve.FileMountsForSandbox", NoName>> } # {}

(* C14: when the removal of the container fails during a sandbox delete,   *)
(* the delete stops with that error and nothing has changed: no reference  *)
(* is removed, no backing store deleted, no record removed, and the        *)
(* sandbox record is still there.                                          *)
C14_ContainerRemovalFailureStopsDelete ==
    [][ (/\ Ran("delete")
         /\ Has(sandboxStore, request'.name)
         /\ request'.policy # "both" /\ ~ResolveFaulted(request')
         /\ ContainerRemovalFails(request'))
            => /\ last'.outcome = "remove-container-failed"
               /\ UNCHANGED world
               /\ Has(sandboxStore', request'.name) ]_vars

\* A delete with --delete-volumes of a sandbox that is the sole reference of
\* a backing store stops at the container.
C14_Witness ==
    /\ Done("delete") /\ request.policy = "delete"
    /\ <<"RemoveDockerSandbox", NoName>> \in request.faults
    /\ Has(sandboxStore, request.name)
    /\ request.name \in containers
    /\ Len(Exclusive(volumeStore, request.name)) > 0
    /\ last.op = "delete" /\ last.outcome = "remove-container-failed"

StoreIOStatuses ==
    { "delete-failed: failed to update refs", "delete-failed: failed to check usage",
      "delete-failed: failed to remove state entry" }

\* The report of a delete that removed the container shows a failed read or
\* write of a record store.
StoreIOFailed(report) ==
    \/ report.outcome = "record-remove-failed"
    \/ NoName \in Range(report.failures)
    \/ \E i \in DOMAIN report.statuses : report.statuses[i].status \in StoreIOStatuses

DeletePastContainer == last'.op = "delete" /\ ops' # ops /\ last'.name # ""

ReferencedBy(sandbox) ==
    { n \in Names(volumeStore) : sandbox \in Refs(volumeStore, n) }
    \cup { n \in Names(fileMountStore) : sandbox \in Refs(fileMountStore, n) }

(* C15: after a sandbox delete of s that removed the container and in      *)
(* which no read or write of a record store failed, no directory-volume    *)
(* record and no file-mount record has s in its reference set, whatever    *)
(* the policy (delete, keep, auto confirmed, auto declined, auto without   *)
(* exclusive stores).                                                      *)
C15_NoReferenceAfterDelete ==
    [][ (DeletePastContainer /\ ~StoreIOFailed(last'))
            => /\ \A n \in Names(volumeStore') : last'.name \notin Refs(volumeStore', n)
               /\ \A n \in Names(fileMountStore') :
                      last'.name \notin Refs(fileMountStore', n) ]_vars

\* A delete with neither flag of a sandbox that only shares its stores: no
\* prompt, every store kept, and no reference to the sandbox left.
C15_Witness ==
    /\ last.op = "delete" /\ last.outcome = "ok" /\ last.policy = "auto"
    /\ ~last.deleteVolumes
    /\ \E i \in DOMAIN last.statuses :
          /\ last.statuses[i].status = "preserved"
          /\ Has(volumeStore, last.statuses[i].store)
          /\ Refs(volumeStore, last.statuses[i].store) # {}
    /\ ReferencedBy(last.name) = {}

ListingOrRecordFaulted(r) ==
    r.faults \cap { <<"cleanup.VolumesForSandbox", NoName>>,
                    <<"cleanup.FileMountsForSandbox", NoName>>,
                    <<"store.Remove", NoName>> } # {}

FailedLines(report) ==
    { i \in DOMAIN report.statuses :
        report.statuses[i].status \notin
            {"preserved", "preserved (still referenced)", "deleted"} }

(* C16: in a sandbox delete that removed the container, a failure on one   *)
(* backing store (reference update, usage check, physical deletion, record *)
(* removal) stops neither the processing of the other volumes and file     *)
(* mounts nor the removal of the sandbox record: every store that          *)
(* referenced the sandbox gets its status line, the sandbox record is      *)
(* removed, and the error returned names every store that failed.          *)
C16_PerStoreFailuresAggregated ==
    [][ (Ran("delete") /\ last'.name # "" /\ ~ListingOrRecordFaulted(request'))
            => /\ ~Has(sandboxStore', request'.name)
               /\ { last'.statuses[i].store : i \in DOMAIN last'.statuses }
                      = ReferencedBy(request'.name)
               /\ Len(last'.statuses) = Cardinality(ReferencedBy(request'.name))
               /\ Range(last'.errors)
                      = { last'.statuses[i].store : i \in FailedLines(last') } ]_vars

\* The backing stores, of either kind, whose only reference is the sandbox.
SoleReferenceStores(sandbox) ==
    { n \in Names(volumeStore) : Refs(volumeStore, n) = {sandbox} }
    \cup { n \in Names(fileMountStore) : Refs(fileMountStore, n) = {sandbox} }

(* C17: the policy of a sandbox delete.  --delete-volumes together with    *)
(* --keep-volumes is a usage error and changes nothing; --delete-volumes   *)
(* alone resolves to delete, --keep-volumes alone to keep; with neither    *)
(* flag the policy is keep when no store referenced by the sandbox, volume *)
(* or file mount, has it as its only reference, and the answer given at    *)
(* the prompt otherwise.                                                   *)
C17_DeletePolicyResolution ==
    [][ (last'.op = "delete" /\ ops' # ops)
            => /\ last'.policy = "both"
                    => (last'.outcome = "flag-error" /\ UNCHANGED world)
               /\ last'.name # ""
                    => last'.deleteVolumes =
                          CASE last'.policy = "delete" -> TRUE
                            [] last'.policy = "keep" -> FALSE
                            [] last'.policy = "auto" ->
                                 IF SoleReferenceStores(last'.name) = {} THEN FALSE
                                 ELSE last'.confirmed
                            [] OTHER -> ~last'.deleteVolumes ]_vars

\* Neither flag, a volume shared with another sandbox and a file mount of
\* the sandbox's own: the prompt is shown for the file mount alone, and on
\* "y" the file mount is deleted and the volume kept.
C17_Witness ==
    /\ last.op = "delete" /\ last.policy = "auto" /\ last.outcome = "ok"
    /\ last.confirmed /\ last.deleteVolumes
    /\ \E i, j \in DOMAIN last.statuses :
          /\ last.statuses[i].kind = "volume"
          /\ last.statuses[i].status = "preserved (still referenced)"
          /\ last.statuses[j].kind = "file-mount"
          /\ last.statuses[j].status = "deleted"

\* What a status line is about, before and after the delete step.
LineStore(line) == IF line.kind = "volume" THEN volumeStore ELSE fileMountStore
LineStoreAfter(line) == IF line.kind = "volume" THEN volumeStore' ELSE fileMountStore'

OthersRemain(line, sandbox) == Refs(LineStore(line), line.store) \ {sandbox} # {}

Gone(line) ==
    /\ ~Has(LineStoreAfter(line), line.store)
    /\ IF line.kind = "volume" THEN line.store \notin dockerVolumes'
       ELSE CopyDir(fileMountStore, line.store) \notin fileMountDirs'

Released(line, sandbox) ==
    Has(LineStoreAfter(line), line.store)
        => sandbox \notin Refs(LineStoreAfter(line), line.store)

OneLinePerStore(report, sandbox) ==
    /\ { report.statuses[i].store : i \in DOMAIN report.statuses } = ReferencedBy(sandbox)
    /\ Len(report.statuses) = Cardinality(ReferencedBy(sandbox))

DeleteFailedStatuses ==
    StoreIOStatuses \cup {"delete-failed: remove volume", "delete-failed: remove directory"}

DeclaredBindTargets(r) ==
    Targets(r.mountFlags)
    \o (IF r.git THEN <<GitTarget>> ELSE <<>>)
    \o (IF IsAgentPreset(r.preset) THEN Targets(RWCopyMounts(AllMounts(HomeDir)))
        ELSE <<>>)

(* C19: in a successful sandbox create, the record of every backing store  *)
(* it creates and every reference it adds to an attached volume is written *)
(* before the container is created, one write per mount in the order of    *)
(* declaration (bind-form mounts first, then the --volume inputs); the     *)
(* sandbox record is written after the container was created and is the    *)
(* last write; and the bindings of the sandbox record are in that same     *)
(* order.                                                                  *)
C19_CreateWriteOrder ==
    [][ (Ran("create") /\ last'.outcome = "ok") =>
            LET log == last'.log
                n == Len(log)
                info == Get(sandboxStore', request'.name)
                binds == DeclaredBindTargets(request')
                vols == Targets(request'.volumeFlags)
            IN  /\ n = Len(binds) + Len(vols) + 2
                /\ \A k \in 1..Len(binds) :
                      /\ log[k].call \in {"volumeStore.Save", "fileMountStore.Save"}
                      /\ log[k].index = k
                /\ \A k \in 1..Len(vols) :
                      log[Len(binds) + k] = Call("volumeStore.AddSandboxRef", k)
                /\ log[n - 1] = Call("CreateDockerSandbox", 0)
                /\ log[n] = Call("store.Save", 0)
                /\ Targets(info.Mounts) = binds \o vols
                /\ \A v \in BoundVolumes(info) :
                      Has(volumeStore', v) /\ request'.name \in Refs(volumeStore', v)
                /\ \A i \in DOMAIN fileMountStore' :
                      fileMountStore'[i].CopyPath \in BoundCopyPaths(info)
                          => request'.name \in Range(fileMountStore'[i].SandboxRefs) ]_vars

\* A create with a --mount, the --git mount, an agent-configuration mount
\* and an attached volume, in a store that already has records.
C19_Witness ==
    /\ Done("create") /\ ops = 2 /\ last.outcome = "ok"
    /\ request.mountFlags # <<>> /\ request.volumeFlags # <<>>
    /\ request.git /\ IsAgentPreset(request.preset)
    /\ Len(last.log) = 6
    /\ Len(Get(sandboxStore, request.name).Mounts) = 4

\* The physical store of a status line exists in the current state.
PhysicalThere(line) ==
    IF line.kind = "volume" THEN line.store \in dockerVolumes
    ELSE CopyDir(fileMountStore, line.store) \in fileMountDirs

PhysicalThereAfter(line) ==
    IF line.kind = "volume" THEN line.store \in dockerVolumes'
    ELSE CopyDir(fileMountStore, line.store) \in fileMountDirs'

\* Every record that the step removes has lost its physical store.
RemovedRecordsHaveNoPhysicalStore ==
    /\ \A n \in Names(volumeStore) \ Names(volumeStore') : n \notin dockerVolumes'
    /\ \A n \in Names(fileMountStore) \ Names(fileMountStore') :
           CopyDir(fileMountStore, n) \notin fileMountDirs'

(* C20: the order of a sandbox delete, seen in what a failure leaves       *)
(* behind.  For each store the reference is removed before the physical    *)
(* deletion is tried (a failed physical deletion leaves the record without *)
(* the reference, and the physical store); the physical store is deleted   *)
(* before the record is removed (a failed record removal leaves the record *)
(* without the physical store); a record is removed only with its physical *)
(* store; and the sandbox record is removed after all stores are processed *)
(* (when its removal fails, the references are already released).  volume  *)
(* delete keeps the order physical-then-record: a failed physical deletion *)
(* changes nothing, and no record is removed without its physical store.   *)
C20_DeleteOrder ==
    [][ /\ DeletePastContainer =>
              /\ RemovedRecordsHaveNoPhysicalStore
              /\ \A i \in DOMAIN last'.statuses :
                    LET line == last'.statuses[i]
                    IN  /\ line.status \in {"delete-failed: remove volume",
                                            "delete-failed: remove directory"}
                            => /\ Has(LineStoreAfter(line), line.store)
                               /\ Released(line, last'.name)
                               /\ PhysicalThereAfter(line) = PhysicalThere(line)
                        /\ line.status = "delete-failed: failed to remove state entry"
                            => /\ Has(LineStoreAfter(line), line.store)
                               /\ Released(line, last'.name)
                               /\ ~PhysicalThereAfter(line)
                        /\ line.status = "delete-failed: failed to update refs"
                            => /\ Has(LineStoreAfter(line), line.store)
                               /\ Get(LineStoreAfter(line), line.store)
                                      = Get(LineStore(line), line.store)
                               /\ PhysicalThereAfter(line) = PhysicalThere(line)
              /\ last'.outcome = "record-remove-failed"
                    => sandboxStore' = sandboxStore
              /\ (last'.outcome = "record-remove-failed" /\ last'.failures = <<>>)
                    => /\ Has(sandboxStore', last'.name)
                       /\ \A n \in Names(volumeStore') :
                              last'.name \notin Refs(volumeStore', n)
                       /\ \A n \in Names(fileMountStore') :
                              last'.name \notin Refs(fileMountStore', n)
        /\ (last'.op = "volume-delete" /\ ops' # ops) =>
              /\ RemovedRecordsHaveNoPhysicalStore
              /\ last'.outcome \in {"removeVolumeFn", "os.RemoveAll"} => UNCHANGED world
              /\ last'.outcome = "store.Remove"
                    => /\ volumeStore' = volumeStore /\ fileMountStore' = fileMountStore
                       /\ last'.volume \notin dockerVolumes'
                       /\ Has(fileMountStore, last'.volume)
                              => CopyDir(fileMountStore, last'.volume) \notin fileMountDirs' ]_vars

\* A sandbox delete under the policy delete whose removal of a copy
\* directory failed: the record is kept, without the reference.
C20_Witness ==
    /\ last.op = "delete" /\ last.deleteVolumes /\ last.outcome = "cleanup-failed"
    /\ \E i \in DOMAIN last.statuses :
          /\ last.statuses[i].status = "delete-failed: remove directory"
          /\ Has(fileMountStore, last.statuses[i].store)
          /\ Refs(fileMountStore, last.statuses[i].store) = {}
          /\ PhysicalThere(last.statuses[i])
    /\ ~Has(sandboxStore, last.name)

\* The backing stores minted for a sandbox record's bindings, in the order
\* of the bindings: the volumes copied from a host directory and the copy
\* directories of the file mounts.
MintedVolumes(info) ==
    LET b == SelectSeq(info.Mounts,
                 LAMBDA m : m.Type = "volume" /\ m.SnapshotFrom # NoPath)
    IN  [i \in DOMAIN b |-> b[i].Volume]

MintedCopyDirs(info) ==
    LET b == SelectSeq(info.Mounts,
                 LAMBDA m : m.Type = "bind" /\ m.SnapshotFrom # NoPath)
    IN  [i \in DOMAIN b |-> Dir(b[i].Source)]

RecordsKept(store, storeAfter) ==
    \A n \in Names(store) : Has(storeAfter, n) /\ Get(storeAfter, n) = Get(store, n)

(* C21: the backing-store names minted for rwcopy mounts are distinct      *)
(* within their record set, in one create and across creates, so that the  *)
(* save of a freshly minted record never replaces a record: a create that  *)
(* attaches no volume leaves every record it found as it was, and the      *)
(* stores minted for a sandbox are pairwise distinct and none of them was  *)
(* on record before.  This is to hold with a clock that may repeat a       *)
(* reading and with targets that sanitize to the same text.                *)
C21_MintedNamesDistinct ==
    [][ Ran("create") =>
            /\ RecordsKept(volumeStore, volumeStore')
            /\ RecordsKept(fileMountStore, fileMountStore')
            /\ last'.outcome = "ok" =>
                 LET info == Get(sandboxStore', request'.name)
                 IN  /\ Distinct(MintedVolumes(info))
                     /\ Distinct(MintedCopyDirs(info))
                     /\ Range(MintedVolumes(info)) \cap Names(volumeStore) = {}
                     /\ Range(MintedCopyDirs(info)) \cap fileMountDirs = {} ]_vars

\* Steps of SpecStore: request' is the call and what it returned.
Called(op) == ops' # ops /\ request'.op = op

Returned(op) == Called(op) /\ ~request'.err

\* The record set a call is to leave.
Intended(store, call) ==
    IF call.op = "Save" THEN Save(store, call.info)
    ELSE IF call.op = "Remove" THEN Remove(store, call.name)
    ELSE IF call.op = "AddSandboxRef" THEN AddSandboxRef(store, call.name, call.sandbox)
    ELSE RemoveSandboxRef(store, call.name, call.sandbox)

(* C22: a mutation of a record set is atomic with respect to interruption: *)
(* whether the call runs to its end, fails or is stopped part-way, a read  *)
(* of the file afterwards returns the whole record set from before the     *)
(* call or the whole record set the call was to leave.                     *)
C22_RewriteAtomic ==
    [][ ops' # ops =>
            readAll(volumesFile') \in { readAll(volumesFile),
                                        Intended(readAll(volumesFile), request') } ]_vars

\* The lines of a file that carry fields the record type does not declare.
WithUnknown(file) == { i \in DOMAIN file : ~file[i].torn /\ file[i].unknown # {} }

(* C23: a rewrite of the record file keeps unknown fields: after a call    *)
(* that returned without error, every record whose line carried fields     *)
(* the record type does not declare, and that the call neither saved nor   *)
(* removed, has a line that carries them still.                            *)
C23_UnknownFieldsKept ==
    [][ (ops' # ops /\ ~request'.err) =>
            \A i \in WithUnknown(volumesFile) :
                \/ request'.op \in {"Save", "Remove"} /\ volumesFile[i].Name = request'.name
                \/ \E j \in DOMAIN volumesFile' :
                      /\ volumesFile'[j].Name = volumesFile[i].Name
                      /\ volumesFile'[j].unknown = volumesFile[i].unknown ]_vars

Count(seq, x) == Cardinality({ i \in DOMAIN seq : seq[i] = x })

Before(seq, a, b) == \E i, j \in DOMAIN seq : i < j /\ seq[i] = a /\ seq[j] = b

\* after is before without x, the others in the order they had.
Without(before, after, x) ==
    /\ Range(after) = Range(before) \ {x}
    /\ Len(after) = Len(before) - Count(before, x)
    /\ \A a, b \in Range(after) : Before(after, a, b) => Before(before, a, b)

RefsIn(file, name) == Get(readAll(file), name).SandboxRefs

OnceMore == Run("ok", 0, FALSE)

OthersOf(store, name) == SelectSeq(store, LAMBDA r : r.Name # name)

OnePerName(store) == \A i, j \in DOMAIN store : i < j => store[i].Name # store[j].Name

C26_RemoveIdempotentFramed ==
    [][ Returned("Remove") =>
            LET name == request'.name
                before == readAll(volumesFile)
                after == readAll(volumesFile')
                again == fileRemove(volumesFile', name, OnceMore)
            IN  /\ ~Has(after, name)
                /\ after = OthersOf(before, name)
                /\ ~Has(before, name) => volumesFile' = volumesFile
                /\ ~again.err /\ again.file = volumesFile' ]_vars

\* A Remove returned, of a name that has no record in a store that has one.
C26_Witness ==
    /\ request.op = "Remove" /\ ~request.err
    /\ ~Has(readAll(volumesFile), request.name)
    /\ Len(readAll(volumesFile)) = 1
    /\ WithUnknown(volumesFile) = {}

\* The positions of the --mount flags of a create that are rwcopy mounts of
\* a source of one of the kinds.
RWCopyOf(r, kinds) ==
    { i \in DOMAIN r.mountFlags :
        IsRWCopy(r.mountFlags[i]) /\ HostKind(r.mountFlags[i].Source) \in kinds }

PassedThrough(raw) ==
    [Type |-> "bind", Source |-> raw.Source, Volume |-> NoName,
     Target |-> raw.Target, Mode |-> raw.Mode, SnapshotFrom |-> NoPath]

FileMountAt(store, copyPath) ==
    { i \in DOMAIN store : store[i].CopyPath = copyPath }

(* C27: the rwcopy resolution of a create that succeeds maps every         *)
(* bind-form mount to one effective binding with the same target: a mount  *)
(* that is not rwcopy is passed through unchanged and makes no backing     *)
(* store; an rwcopy mount of a directory makes one runtime volume and one  *)
(* directory-volume record with reference set [sandbox] and is bound as a  *)
(* volume, mode rw, provenance the host source; an rwcopy mount of a       *)
(* regular file makes one copy directory and one file-mount record with    *)
(* reference set [sandbox] and is bound to the copy, mode rw; two rwcopy   *)
(* mounts never share a backing store.                                     *)
C27_ResolutionMapsEachMount ==
    [][ (Ran("create") /\ last'.outcome = "ok") =>
            LET r == request'
                info == Get(sandboxStore', r.name)
            IN  /\ Len(info.Mounts) = Len(r.mountFlags)
                /\ \A i \in DOMAIN r.mountFlags :
                     LET raw == r.mountFlags[i]
                         b == info.Mounts[i]
                     IN  /\ b.Target = raw.Target
                         /\ ~IsRWCopy(raw) => b = PassedThrough(raw)
                         /\ i \in RWCopyOf(r, {"dir"}) =>
                              /\ b.Type = "volume" /\ b.Mode = "rw"
                              /\ b.SnapshotFrom = raw.Source
                              /\ b.Volume \in dockerVolumes' \ dockerVolumes
                              /\ ~Has(volumeStore, b.Volume)
                              /\ Has(volumeStore', b.Volume)
                              /\ Get(volumeStore', b.Volume).SandboxRefs = <<r.name>>
                         /\ i \in RWCopyOf(r, {"file"}) =>
                              /\ b.Type = "bind" /\ b.Mode = "rw"
                              /\ b.SnapshotFrom = raw.Source
                              /\ Dir(b.Source) \in fileMountDirs' \ fileMountDirs
                              /\ FileMountAt(fileMountStore, b.Source) = {}
                              /\ \E k \in FileMountAt(fileMountStore', b.Source) :
                                    fileMountStore'[k].SandboxRefs = <<r.name>>
                /\ Cardinality(dockerVolumes' \ dockerVolumes)
                       = Cardinality(RWCopyOf(r, {"dir"}))
                /\ Len(volumeStore') = Len(volumeStore) + Cardinality(RWCopyOf(r, {"dir"}))
                /\ Cardinality(fileMountDirs' \ fileMountDirs)
                       = Cardinality(RWCopyOf(r, {"file", "other"}))
                /\ Len(fileMountStore')
                       = Len(fileMountStore) + Cardinality(RWCopyOf(r, {"file", "other"}))
                /\ \A i, j \in RWCopyOf(r, {"dir"}) :
                     i # j => info.Mounts[i].Volume # info.Mounts[j].Volume
                /\ \A i, j \in RWCopyOf(r, {"file"}) :
                     i # j => Dir(info.Mounts[i].Source) # Dir(info.Mounts[j].Source) ]_vars

\* The --mount flags of a create that are rwcopy mounts of a source that
\* cannot be copied: nothing is at the path, or what is there is neither a
\* directory nor a regular file.
Uncopyable(r) == RWCopyOf(r, {"missing", "other"})

StoresOfCallGone ==
    /\ Names(volumeStore') \subseteq Names(volumeStore)
    /\ dockerVolumes' \subseteq dockerVolumes
    /\ Names(fileMountStore') \subseteq Names(fileMountStore)
    /\ fileMountDirs' \subseteq fileMountDirs

NothingCreated ==
    /\ containers' = containers
    /\ sandboxStore' = sandboxStore
    /\ StoresOfCallGone

(* C28: a create with an rwcopy mount whose source is inaccessible, or is  *)
(* neither a directory nor a regular file, fails as a whole: it makes no   *)
(* container, writes no sandbox record, and the backing stores made for    *)
(* the mounts before it are rolled back.                                   *)
C28_UncopyableSourceFailsCreate ==
    [][ (Ran("create") /\ Uncopyable(request') # {}
         /\ last'.outcome \notin {"input-error", "exists"}) =>
            /\ last'.outcome = "rolled-back"
            /\ NothingCreated ]_vars

\* The same for the sources that os.Stat reports an error for: this much of
\* it holds.
InaccessibleSourceFailsCreate ==
    [][ (Ran("create") /\ RWCopyOf(request', {"missing"}) # {}
         /\ last'.outcome \notin {"input-error", "exists"}) =>
            /\ last'.outcome = "rolled-back"
            /\ NothingCreated ]_vars

\* The create got past its checks of the command line and of the name.
Started == last'.outcome \notin {"input-error", "git-failed", "exists", "aborted"}

(* C29: a --volume attach succeeds only for a name that has a record in    *)
(* the directory-volume store: a create that names a volume without one    *)
(* fails as a whole and what it made before is rolled back; after a create *)
(* that succeeds every attached volume was on record before the call and   *)
(* its reference set holds the new sandbox name exactly once, also when    *)
(* the volume is attached at several targets.                              *)
C29_AttachOnlyTrackedVolumes ==
    [][ (Ran("create") /\ Started) =>
            LET r == request'
                attached == { r.volumeFlags[j].Volume : j \in DOMAIN r.volumeFlags }
            IN  /\ (attached \ Names(volumeStore) # {}) =>
                     /\ last'.outcome = "rolled-back"
                     /\ NothingCreated
                /\ last'.outcome = "ok" =>
                     \A v \in attached :
                        /\ Has(volumeStore, v) /\ Has(volumeStore', v)
                        /\ Count(Get(volumeStore', v).SandboxRefs, r.name) = 1 ]_vars

\* A create that attached one volume at two targets has succeeded.
C29_Witness ==
    /\ Done("create") /\ last.outcome = "ok"
    /\ Len(request.volumeFlags) = 2
    /\ request.volumeFlags[1].Volume = request.volumeFlags[2].Volume
    /\ Get(volumeStore, request.volumeFlags[1].Volume).SandboxRefs = <<"s1", "s2">>

(* C30: when a create with --git has returned, the temporary directory of  *)
(* the prepared repository does not exist, however the create ended: the   *)
(* preparation failed, the command line was refused, the name was taken,   *)
(* the confirmation was declined, the create was rolled back, the save of  *)
(* the sandbox record failed, or the create succeeded.                     *)
C30_GitTempDirRemoved ==
    [][ (Ran("create") /\ request'.git) =>
            /\ tempDirs' = {}
            /\ last'.outcome \in {"git-failed", "input-error", "exists", "aborted",
                                  "rolled-back", "persist-failed", "ok"} ]_vars

\* A create with --git whose container was made and whose record could not
\* be saved has returned, after one that succeeded.
C30_Witness ==
    /\ Done("create") /\ request.git
    /\ last.outcome = "persist-failed"
    /\ request.fault = <<"store.Save", 0>>
    /\ Len(sandboxStore) = 1
    /\ tempDirs = {}

\* The calls a delete makes on one backing store, by the kind of the store.
StoreCalls(kind) ==
    IF kind = "volume"
    THEN [listing |-> "cleanup.VolumesForSandbox", release |-> "volumeStore.RemoveSandboxRef",
          usage |-> "volumeStore.IsInUse", physical |-> "removeVolumeFn",
          status |-> "delete-failed: remove volume"]
    ELSE [listing |-> "cleanup.FileMountsForSandbox",
          release |-> "fileMountStore.RemoveSandboxRef",
          usage |-> "fileMountStore.IsInUse", physical |-> "os.RemoveAll",
          status |-> "delete-failed: remove directory"]

\* The delete of request r, once past the container and with the policy
\* resolved to delete, tries the physical deletion of store n and fails: the
\* sandbox is the only reference of n and the calls before went through.
PhysicalDeletionFails(r, kind, n) ==
    LET store == IF kind = "volume" THEN volumeStore ELSE fileMountStore
        calls == StoreCalls(kind)
    IN  /\ Has(store, n) /\ Refs(store, n) = {r.name}
        /\ <<calls.physical, n>> \in r.faults
        /\ <<calls.listing, NoName>> \notin r.faults
        /\ <<calls.release, n>> \notin r.faults
        /\ <<calls.usage, n>> \notin r.faults

\* A volume delete without --force of store n would go through in the state
\* after the step.
DeletableAfter(kind, n) ==
    IF kind = "volume"
    THEN deleteTrackedVolume(volumeStore', dockerVolumes', n, FALSE, "").err = ""
    ELSE deleteTrackedFileMount(fileMountStore', fileMountDirs', n, FALSE, "").err = ""

(* C33: when the physical deletion of a backing store fails in a sandbox   *)
(* delete whose policy resolved to delete, the record of the store is not  *)
(* removed: it stays in its record store, unchanged but for the reference  *)
(* of the deleted sandbox, which is gone; the physical store is as it was; *)
(* a volume delete of the store would be accepted afterwards; and the      *)
(* status lines, which are printed when the sandbox record was removed,    *)
(* have exactly one line for the store, `delete-failed: <reason>`.         *)
C33_FailedPhysicalDeletionKeepsRecord ==
    [][ (Ran("delete") /\ last'.name # "" /\ last'.deleteVolumes) =>
            \A kind \in {"volume", "file-mount"} :
            \A n \in Names(volumeStore) \cup Names(fileMountStore) :
                PhysicalDeletionFails(request', kind, n) =>
                    LET line == Line(kind, n, StoreCalls(kind).status)
                    IN  /\ Has(LineStoreAfter(line), n)
                        /\ Get(LineStoreAfter(line), n)
                               = [Get(LineStore(line), n) EXCEPT !.SandboxRefs = <<>>]
                        /\ PhysicalThere(line) /\ PhysicalThereAfter(line)
                        /\ DeletableAfter(kind, n)
                        /\ last'.outcome # "record-remove-failed"
                              => /\ last'.outcome = "cleanup-failed"
                                 /\ Count(last'.statuses, line) = 1
                                 /\ \A i \in DOMAIN last'.statuses :
                                        last'.statuses[i].store = n
                                            => last'.statuses[i] = line ]_vars

\* A delete with --delete-volumes whose docker volume rm failed: the record
\* is listed with no reference, the volume exists, the line is printed.
C33_Witness ==
    /\ Done("delete") /\ request.policy = "delete"
    /\ last.op = "delete" /\ last.outcome = "cleanup-failed" /\ last.deleteVolumes
    /\ ~Has(sandboxStore, request.name)
    /\ \E n \in Names(volumeStore) :
          /\ <<"removeVolumeFn", n>> \in request.faults
          /\ Refs(volumeStore, n) = {}
          /\ n \in dockerVolumes
          /\ Count(last.statuses, Line("volume", n, "delete-failed: remove volume")) = 1

\* The lines of an input that end in a newline, without the newline.
RECURSIVE TerminatedLines(_)
TerminatedLines(input) ==
    IF \A i \in DOMAIN input : input[i] # "\n" THEN <<>>
    ELSE LET k == CHOOSE i \in DOMAIN input :
                      input[i] = "\n" /\ \A j \in 1..(i - 1) : input[j] # "\n"
         IN  <<SubSeq(input, 1, k - 1)>> \o TerminatedLines(SubSeq(input, k + 1, Len(input)))

\* The lines of the inputs that say yes and those that say no, letter case
\* and surrounding white space aside.
YesLines == { <<"y">>, <<"Y", "E", "S">>, <<"\t", "Y", " ">> }
NoLines == { <<" ", "n", "\r">>, <<"N", "o">> }

\* The place of the first line that is an answer, 0 when there is none.
FirstAnswer(lines) ==
    LET answers == { i \in DOMAIN lines : lines[i] \in YesLines \cup NoLines }
    IN  IF answers = {} THEN 0 ELSE CHOOSE i \in answers : \A j \in answers : i <= j

\* The delete of request r gets as far as the prompt: neither flag, a record
\* of the sandbox, both listings read, and a store that only it references.
DeletePrompts(r) ==
    /\ r.policy = "auto" /\ Has(sandboxStore, r.name)
    /\ ~ResolveFaulted(r)
    /\ Prompted(r.name)

(* C34: the confirmation prompt returns true only when the first line of   *)
(* the input that is an answer is y or yes, false without error only when  *)
(* it is n or no (letter case and surrounding white space aside), prompts  *)
(* once more after every line that is not an answer, and returns an error  *)
(* when the input ends with no line that is an answer.  When it returns    *)
(* the error in a sandbox delete with neither volume flag, the delete      *)
(* stops with the error and nothing has changed: the container, the        *)
(* references, the backing stores and the records are as they were.        *)
C34_PromptAnswers ==
    [][ (Ran("create") \/ Ran("delete")) =>
            LET p == promptForConfirmation(request'.stdin)
                lines == TerminatedLines(request'.stdin)
                k == FirstAnswer(lines)
            IN  /\ p.err <=> k = 0
                /\ p.value => (k # 0 /\ lines[k] \in YesLines)
                /\ (~p.value /\ ~p.err) => lines[k] \in NoLines
                /\ p.prompts = (IF k = 0 THEN Len(lines) + 1 ELSE k)
                /\ (Ran("delete") /\ DeletePrompts(request')) =>
                      /\ k = 0 => /\ last'.outcome = "resolve-failed"
                                  /\ UNCHANGED world
                                  /\ request'.name \in containers
                                         => request'.name \in containers'
                      /\ (k # 0 /\ last'.name # "")
                            => last'.deleteVolumes = (lines[k] \in YesLines) ]_vars

\* A delete with neither flag of a sandbox that is the only reference of a
\* store, with an input of a line that is no answer and a y that no newline
\* follows: the delete stops, container and record are still there.
C34_Witness ==
    /\ Done("delete") /\ request.policy = "auto"
    /\ request.stdin = <<"m", "\n", "y">>
    /\ request.faults = {}
    /\ Prompted(request.name)
    /\ Has(sandboxStore, request.name) /\ request.name \in containers
    /\ last.op = "delete" /\ last.outcome = "resolve-failed"

\* The create of request r asks for confirmation: no --yes, a mount or a
\* volume to show, and a name that is free.
CreatePrompts(r) ==
    /\ ~r.yes /\ ~Has(sandboxStore, r.name)
    /\ r.git \/ Len(r.mountFlags) + Len(r.volumeFlags) > 0

Declines(input) ==
    LET lines == TerminatedLines(input)
    IN  FirstAnswer(lines) # 0 /\ lines[FirstAnswer(lines)] \in NoLines

(* C35: a sandbox create that asks for confirmation and is answered no     *)
(* returns without error and has changed nothing: no runtime volume, copy  *)
(* directory or temporary directory is there that was not before, no       *)
(* reference is added, no container created, and the three record stores   *)
(* are as they were.                                                       *)
C35_DeclinedCreateChangesNothing ==
    [][ (Ran("create") /\ CreatePrompts(request') /\ Declines(request'.stdin))
            => /\ last'.outcome = "aborted"
               /\ UNCHANGED world ]_vars

\* The second create, with --git, a mount and a tracked volume to attach, is
\* answered "No" after a blank line; the stores of the first are untouched.
C35_Witness ==
    /\ Done("create") /\ ops = 2
    /\ request.git /\ ~request.yes
    /\ request.mountFlags # <<>> /\ request.volumeFlags # <<>>
    /\ Has(volumeStore, request.volumeFlags[1].Volume)
    /\ request.stdin = <<"\n", "N", "o", "\n">>
    /\ ~Has(sandboxStore, request.name)
    /\ last.op = "create" /\ last.outcome = "aborted"
    /\ tempDirs = {}

\* The step keeps the record of backing store n and its physical store.
StoreUntouched(kind, n) ==
    LET line == Line(kind, n, "")
    IN  /\ Has(LineStoreAfter(line), n)
        /\ Get(LineStoreAfter(line), n) = Get(LineStore(line), n)
        /\ PhysicalThereAfter(line) = PhysicalThere(line)

(* C36: sandbox delete s changes nothing that does not belong to s.  A     *)
(* directory-volume or file-mount record whose reference set does not      *)
(* contain s keeps its record, its reference set and its physical store,   *)
(* whatever the policy and whatever fails (so a store that an earlier      *)
(* delete left without references is not deleted); the record and the      *)
(* container of every other sandbox are as they were; and a delete that    *)
(* stops before the container changes nothing at all.                      *)
C36_DeleteFrame ==
    [][ (last'.op = "delete" /\ ops' # ops) =>
            IF last'.name = ""
            THEN UNCHANGED <<sandboxStore, volumeStore, fileMountStore, containers,
                             dockerVolumes, fileMountDirs>>
            ELSE /\ \A n \in Names(volumeStore) :
                        last'.name \notin Refs(volumeStore, n) => StoreUntouched("volume", n)
                 /\ \A n \in Names(fileMountStore) :
                        last'.name \notin Refs(fileMountStore, n)
                            => StoreUntouched("file-mount", n)
                 /\ \A t \in SandboxNames \ {last'.name} :
                        /\ Has(sandboxStore', t) = Has(sandboxStore, t)
                        /\ Has(sandboxStore, t)
                               => Get(sandboxStore', t) = Get(sandboxStore, t)
                        /\ (t \in containers') = (t \in containers) ]_vars

\* A delete under the policy delete, past the container, of a sandbox whose
\* earlier delete released its volume and kept it: the volume, which no
\* sandbox references, is still recorded and still there.
C36_Witness ==
    /\ last.op = "delete" /\ last.name # "" /\ last.deleteVolumes
    /\ last.outcome = "ok" /\ last.statuses = <<>>
    /\ \E n \in Names(volumeStore) : Refs(volumeStore, n) = {} /\ n \in dockerVolumes

\* The sandboxes that a reference set names and the sandbox store has no
\* record of.
UnrecordedReferrers ==
    { s \in SandboxNames :
        /\ ~Has(sandboxStore, s)
        /\ \/ \E n \in Names(volumeStore) : s \in Refs(volumeStore, n)
           \/ \E n \in Names(fileMountStore) : s \in Refs(fileMountStore, n) }

(* C37: in every state reached by sandbox create, sandbox delete and       *)
(* volume delete, each succeeding or failing at one of its steps, every    *)
(* sandbox name in the reference set of a directory-volume or file-mount   *)
(* record is the name of a sandbox that has a record in the sandbox store. *)
C37_ReferrersHaveRecords == UnrecordedReferrers = {}

\* The URLs of the specification that are network URLs (http://, https://,
\* ssh://, user@host:path) and those that name a place on the local file
\* system (a path, file://).
NetworkURLs == { RemoteURLs[k] : k \in {"http", "https", "ssh", "scp"} }
LocalURLs == { RemoteURLs[k] : k \in {"file", "absolute", "relative", "atpath"} }

Synced == request.op \in {"syncGitRemotes", "prepareGitMount"} /\ ~request.err

\* The remotes of the source whose URL is in the set.
SourceRemotes(urls) ==
    [n \in { m \in DOMAIN request.src : request.src[m] \in urls } |-> request.src[n]]

(* C32: after syncGitRemotes(src, dst) has succeeded, the remotes of the   *)
(* prepared copy, as (name, url) pairs, are exactly the remotes of the     *)
(* source whose URL is a network URL (http://, https://, ssh:// or         *)
(* user@host:path): whatever the copy had before is gone, and no remote of *)
(* the source with a local path or a file:// URL is in the copy.           *)
C32_OnlyNetworkRemotesKept ==
    Synced => /\ request.remotes = SourceRemotes(NetworkURLs)
              /\ \A n \in DOMAIN request.remotes : request.remotes[n] \notin LocalURLs

\* What holds of every successful call: the copy has the remotes of the
\* source that are network URLs or local paths with an @ and, more than one
\* character later, a colon, and none that it had before.
NetworkOrAtPathRemotesKept ==
    Synced => request.remotes = SourceRemotes(NetworkURLs \cup {RemoteURLs.atpath})

\* The lines of a report that tell of the creation of a store, and whether
\* a later line tells of a removal tried on the same store.
CreatedLines(report) ==
    { i \in DOMAIN report.statuses : report.statuses[i].status = "created" }

RemovalTried(report, i) ==
    \E j \in DOMAIN report.statuses :
        /\ j > i
        /\ report.statuses[j].kind = report.statuses[i].kind
        /\ report.statuses[j].store = report.statuses[i].store
        /\ report.statuses[j].status \in {"removed", "remove-failed"}

(* C31: materialize treats the backing stores of its rwcopy mounts as      *)
(* ephemeral.  However it ends after it has created a runtime volume or a  *)
(* copy directory (a failure on a later mount, of the container, of the    *)
(* copy of the output, or success), the removal of every one of them is    *)
(* tried before it returns, so that none is left when the removals go      *)
(* through; and it writes no directory-volume, file-mount or sandbox       *)
(* record.                                                                 *)
C31_MaterializeStoresEphemeral ==
    [][ Ran("materialize") =>
            /\ UNCHANGED <<sandboxStore, volumeStore, fileMountStore, fileMountDirs, containers>>
            /\ \A i \in CreatedLines(last') : RemovalTried(last', i)
            /\ request'.removal = "ok"
                  => (dockerVolumes' = dockerVolumes /\ tempDirs' = tempDirs)
            /\ \A v \in dockerVolumes' \ dockerVolumes :
                  \E i \in CreatedLines(last') :
                      last'.statuses[i] = Line("volume", v, "created")
            /\ \A d \in tempDirs' \ tempDirs :
                  \E i \in CreatedLines(last') :
                      last'.statuses[i] = Line("copy-dir", d, "created") ]_vars

\* After a create that left a tracked volume, a materialize with a directory
\* and a file to copy fails at docker run: the volume and the two copy
\* directories it made are gone, the tracked volume and its record are not.
C31_Witness ==
    /\ Done("materialize") /\ ops = 2
    /\ last.op = "materialize" /\ last.outcome = "docker run"
    /\ request.removal = "ok"
    /\ Cardinality(CreatedLines(last)) = 3
    /\ \A i \in CreatedLines(last) : RemovalTried(last, i)
    /\ Len(volumeStore) = 1 /\ Names(volumeStore) = dockerVolumes
    /\ tempDirs = {}

\* The two invocations have returned from their store calls without error.
BothSucceeded == \A p \in Invocations : request[p].pc = "done" /\ ~request[p].err

\* The other invocation saved a record of the same name to the same store,
\* which replaces the record whatever the order of the two calls.
ReplacedByOther(p) ==
    \E q \in Invocations \ {p} :
        /\ request[q].op = "Save"
        /\ request[q].store = request[p].store
        /\ request[q].name = request[p].name

\* What the call of invocation p wrote is in its store.
WriteKept(p) ==
    LET call == request[p]
        store == IF call.store = "volumes" THEN readAll(volumesFile) ELSE sandboxStore
    IN  /\ Has(store, call.name)
        /\ call.op = "AddSandboxRef" /\ ~ReplacedByOther(p)
             => Contains(Get(store, call.name).SandboxRefs, call.sandbox)
        /\ call.op = "Save" /\ call.store = "volumes" /\ ~ReplacedByOther(p)
             => Contains(Get(store, call.name).SandboxRefs, call.sandbox)

\* C38: when two invocations make their store calls concurrently, their
\* read-all and rewrite-all steps in any order, and both return without
\* error, the stores hold the record of every Save and the reference of
\* every AddSandboxRef of both.
C38_ConcurrentWritesKept == BothSucceeded => \A p \in Invocations : WriteKept(p)

\* Two calls made one after the other keep both writes: the second reads
\* what the first wrote.
SerialWritesKept ==
    BothSucceeded /\ (\A p \in Invocations : ~request[p].overlaps)
        => \A p \in Invocations : WriteKept(p)
====
